---------------------------- MODULE Spec2Model ----------------------------
(***************************************************************************)
(* State-machine model of the in-browser debug tools of the theme:        *)
(*   - the per-section component inspector (section-debug.js),            *)
(*   - the whole-page style inspector (style-debug.js),                   *)
(*   - the earlier copy-button version of section-debug.js.               *)
(* Each subsystem has its own specification over the shared variables;    *)
(* the variables of the other subsystems stay at their initial value.     *)
(***************************************************************************)
EXTENDS Integers, Sequences, FiniteSets, TLC

VARIABLES
    \* ---- section instrumentation (init / shopify:section:load) ----
    buttons,         \* container -> number of .section-debug-btn children
    inlinePosition,  \* container -> inline style.position ("" or "relative")
    cssPosition,     \* container -> position given by the stylesheets
    initCalls,       \* how many times init() has run (saturating)
    sectionLoads,    \* how many section-load notifications were handled
    \* ---- copy operations ----
    modalCopyBtn,    \* the per-section panel's Copy All button
    styleCopyBtn,    \* the whole-page panel's Copy All button
    pendingWrites,   \* clipboard writes awaiting settlement
    timers,          \* pending setTimeout callbacks, in firing order
    textareas,       \* fallback textareas currently in the document
    lastCopy,        \* outcome of the copy operation that completed last
    \* ---- colour normalisation ----
    computed,        \* computed style of the element under extraction
    factColors,      \* colours stored in the ElementFact
    wideHex,         \* result of the style-wide rgbToHex
    \* ---- file hints ----
    hintIn,          \* element/container whose hint is resolved
    hintOut,         \* resolved hint
    \* ---- section scan ----
    doc,             \* descendants of the scanned section, document order
    report,          \* components returned by the scan
    \* ---- panels and toast ----
    sectionModal,    \* #section-debug-modal elements, open flag, key listeners
    styleModal,      \* #style-debug-modal elements and open flag
    bodyOverflow,    \* document.body.style.overflow
    toast,           \* the toast variable and the toast elements of the page
    inspectorMode,   \* the whole-page tool's element picker is on
    lastOp,          \* the panel operation performed last
    \* ---- section type ----
    container,       \* the section container whose type is derived
    derived,         \* derived type and the places it was output to
    \* ---- whole-page style scan ----
    page,            \* elements under body, document order
    tables,          \* frequency tables returned by scanStyles
    \* ---- report objects ----
    heap,            \* the report objects allocated so far, by address
    current,         \* address held by the variable `inconsistencies`
    \* ---- theme mode ----
    themeScript,     \* which version of the theme toggle the page loads
    themePhase,      \* "pending" until init() has run, then "ready"
    dataTheme,       \* data-theme attribute of the root element
    storedTheme,     \* localStorage item 'theme-preference'
    systemDark,      \* (prefers-color-scheme: dark) matches
    htmlReady,       \* the root element has the class theme-ready
    themeEvent,      \* detail of the 'themechange' event dispatched last
    userChose,       \* a theme was chosen by hand (not read by the code)
    \* ---- text export of the per-section panel ----
    modalData,       \* what showModal rendered and stored in the dataset
    exportText,      \* the text copyToClipboard(modal) built last
    \* ---- a scan in which an element throws ----
    fault,           \* the element that throws, where, and the selectors it hit
    \* ---- stylesheet passes ----
    sheets,          \* document.styleSheets, in order
    sheetScan,       \* what scanThemeVariables and scanConflicts returned
    \* ---- element picker of the whole-page tool ----
    inspector        \* picker flag, overlay, cursor, listeners, highlights

vars == <<buttons, inlinePosition, cssPosition, initCalls, sectionLoads,
          modalCopyBtn, styleCopyBtn, pendingWrites, timers, textareas, lastCopy,
          computed, factColors, wideHex, hintIn, hintOut, doc, report,
          sectionModal, styleModal, bodyOverflow, toast, inspectorMode, lastOp,
          container, derived, page, tables,
          heap, current,
          themeScript, themePhase, dataTheme, storedTheme, systemDark,
          htmlReady, themeEvent, userChose,
          modalData, exportText,
          fault, sheets, sheetScan, inspector>>

instrVars == <<buttons, inlinePosition, cssPosition, initCalls, sectionLoads>>
copyVars == <<modalCopyBtn, styleCopyBtn, pendingWrites, timers, textareas, lastCopy>>
colorVars == <<computed, factColors, wideHex>>
hintVars == <<hintIn, hintOut>>
scanVars == <<doc, report>>
panelVars == <<sectionModal, styleModal, bodyOverflow, toast, inspectorMode, lastOp>>
typeVars == <<container, derived>>
styleVars == <<page, tables>>
reportVars == <<heap, current>>
themeVars == <<themeScript, themePhase, dataTheme, storedTheme, systemDark,
               htmlReady, themeEvent, userChose>>
exportVars == <<modalData, exportText>>
faultVars == <<fault>>
sheetVars == <<sheets, sheetScan>>
pickerVars == <<inspector>>
lateVars == <<reportVars, themeVars, exportVars, faultVars, sheetVars, pickerVars>>
restVars == <<panelVars, typeVars, styleVars, lateVars>>
baseVars == <<instrVars, copyVars, colorVars, hintVars, scanVars>>

Min(a, b) == IF a < b THEN a ELSE b

(***************************************************************************)
(* Section instrumentation                                                *)
(***************************************************************************)

\* Number of .shopify-section containers of the page.
NumSections == 2

\* Cap on the controls one container can accumulate in the model.
MaxButtons == 3

\* Cap of the call counters.
MaxCalls == 2

Sections == 1..NumSections

\* An event target that is not a section container.
OtherTarget == 0

Targets == Sections \cup {OtherTarget}

\* window.getComputedStyle(section).position
ComputedPosition(s) ==
    IF inlinePosition[s] # "" THEN inlinePosition[s] ELSE cssPosition[s]

\* section.querySelector('.section-debug-btn')
HasButton(s) == buttons[s] > 0

InstrInit ==
    /\ buttons = [s \in Sections |-> 0]
    /\ inlinePosition = [s \in Sections |-> ""]
    /\ cssPosition \in [Sections -> {"static", "absolute"}]
    /\ initCalls = 0
    /\ sectionLoads = 0

\* init() forgetting the existing-control check.
InitSectionNoCheck(s) ==
    [btn |-> buttons[s] + 1,
     pos |-> IF ComputedPosition(s) = "static" THEN "relative" ELSE inlinePosition[s]]

\* Body of the forEach callback of init() for one container.
InitSection(s) ==
    IF HasButton(s)
    THEN [btn |-> buttons[s], pos |-> inlinePosition[s]]
    ELSE [btn |-> buttons[s] + 1,
          pos |-> IF ComputedPosition(s) = "static" THEN "relative" ELSE inlinePosition[s]]

\* SectionDebug.init()
InitCall ==
    /\ \A s \in Sections : InitSection(s).btn <= MaxButtons
    /\ buttons' = [s \in Sections |-> InitSection(s).btn]
    /\ inlinePosition' = [s \in Sections |-> InitSection(s).pos]
    /\ initCalls' = Min(initCalls + 1, MaxCalls)
    /\ UNCHANGED <<cssPosition, sectionLoads>>

\* The 'shopify:section:load' listener, with e.target = t.
SectionLoad(t) ==
    /\ IF t \in Sections
       THEN /\ buttons[t] < MaxButtons
            /\ buttons' = [buttons EXCEPT ![t] = @ + 1]
       ELSE UNCHANGED buttons
    /\ sectionLoads' = Min(sectionLoads + 1, MaxCalls)
    /\ UNCHANGED <<inlinePosition, cssPosition, initCalls>>


(***************************************************************************)
(* Copy operations                                                        *)
(***************************************************************************)

\* Cap on clipboard writes and feedback timers outstanding at once.
MaxInFlight == 2

\* Cap on the fallback textareas left behind in the model.
MaxLeftover == 2

\* navigator.clipboard: missing, or writeText() rejecting / resolving.
ApiStates == {"absent", "rejects", "resolves"}

\* document.execCommand('copy'): returns true, returns false, or throws.
ExecOutcomes == {"true", "false", "throws"}

NoCopy ==
    [tool |-> "none", api |-> "none", exec |-> "none",
     returned |-> "none", outcome |-> "none", shown |-> "none"]

ModalBtnOriginal == [html |-> "Copy All", success |-> FALSE, failBg |-> FALSE]

StyleBtnOriginal == [text |-> "Copy All", success |-> FALSE]

CopyInit ==
    /\ modalCopyBtn = ModalBtnOriginal
    /\ styleCopyBtn = StyleBtnOriginal
    /\ pendingWrites = <<>>
    /\ timers = <<>>
    /\ textareas = 0
    /\ lastCopy = NoCopy

RoomForCopy == Len(pendingWrites) + Len(timers) < MaxInFlight

RemoveAt(seq, i) == SubSeq(seq, 1, i - 1) \o SubSeq(seq, i + 1, Len(seq))

\* fallbackCopyText(text): the textarea is removed on every path and the
\* result is what execCommand returned, false when it threw.
fallbackCopyText(exec) == exec = "true"

\* Tail of the per-section copyToClipboard(modal): button feedback plus the
\* timer that restores the innerHTML captured at click time.
ModalFeedback(success, original) ==
    /\ modalCopyBtn' =
         IF success
         THEN [modalCopyBtn EXCEPT !.html = "Copied!", !.success = TRUE]
         ELSE [modalCopyBtn EXCEPT !.html = "Failed", !.failBg = TRUE]
    /\ timers' = Append(timers,
         [tool |-> "modal",
          kind |-> IF success THEN "success" ELSE "fail",
          original |-> original])

ModalDone(api, exec, success) ==
    [tool |-> "modal", api |-> api, exec |-> exec, returned |-> "undefined",
     outcome |-> "ok", shown |-> IF success THEN "copied" ELSE "failed"]

\* Click on the per-section Copy All button: copyToClipboard(modal) up to
\* its await (through to its end when navigator.clipboard is missing).
ModalCopyClick(api) ==
    /\ RoomForCopy
    /\ IF api = "absent"
       THEN \E exec \in ExecOutcomes :
              /\ ModalFeedback(fallbackCopyText(exec), modalCopyBtn.html)
              /\ lastCopy' = ModalDone(api, exec, fallbackCopyText(exec))
              /\ UNCHANGED pendingWrites
       ELSE /\ pendingWrites' = Append(pendingWrites,
                 [tool |-> "modal", api |-> api, original |-> modalCopyBtn.html])
            /\ UNCHANGED <<modalCopyBtn, timers, lastCopy>>
    /\ UNCHANGED <<styleCopyBtn, textareas>>

\* Continuation of copyToClipboard(modal) once writeText() has settled.
ModalCopySettle(i) ==
    /\ i \in 1..Len(pendingWrites)
    /\ pendingWrites[i].tool = "modal"
    /\ pendingWrites' = RemoveAt(pendingWrites, i)
    /\ IF pendingWrites[i].api = "resolves"
       THEN /\ ModalFeedback(TRUE, pendingWrites[i].original)
            /\ lastCopy' = ModalDone("resolves", "none", TRUE)
       ELSE \E exec \in ExecOutcomes :
              /\ ModalFeedback(fallbackCopyText(exec), pendingWrites[i].original)
              /\ lastCopy' = ModalDone("rejects", exec, fallbackCopyText(exec))
    /\ UNCHANGED <<styleCopyBtn, textareas>>

\* Success feedback of copyAllToClipboard (both branches show the same).
StyleFeedback ==
    /\ styleCopyBtn' = [text |-> "Copied!", success |-> TRUE]
    /\ timers' = Append(timers,
         [tool |-> "style", kind |-> "success", original |-> "Copy All"])

\* Click on the whole-page Copy All button: copyAllToClipboard() up to the
\* promise chain; reading writeText of a missing navigator.clipboard throws.
StyleCopyClick(api) ==
    /\ RoomForCopy
    /\ IF api = "absent"
       THEN /\ lastCopy' = [tool |-> "style", api |-> api, exec |-> "none",
                            returned |-> "none", outcome |-> "throw",
                            shown |-> "none"]
            /\ UNCHANGED pendingWrites
       ELSE /\ pendingWrites' = Append(pendingWrites,
                 [tool |-> "style", api |-> api, original |-> "Copy All"])
            /\ UNCHANGED lastCopy
    /\ UNCHANGED <<modalCopyBtn, styleCopyBtn, timers, textareas>>

\* The .then / .catch handlers of copyAllToClipboard.
StyleCopySettle(i) ==
    /\ i \in 1..Len(pendingWrites)
    /\ pendingWrites[i].tool = "style"
    /\ pendingWrites' = RemoveAt(pendingWrites, i)
    /\ IF pendingWrites[i].api = "resolves"
       THEN /\ StyleFeedback
            /\ lastCopy' = [tool |-> "style", api |-> "resolves", exec |-> "none",
                            returned |-> "undefined", outcome |-> "ok",
                            shown |-> "copied"]
            /\ UNCHANGED textareas
       ELSE \E exec \in ExecOutcomes :
              IF exec = "throws"
              THEN \* the exception leaves the .catch handler: the textarea
                   \* stays and the chained promise rejects unhandled
                   /\ textareas < MaxLeftover
                   /\ textareas' = textareas + 1
                   /\ lastCopy' = [tool |-> "style", api |-> "rejects",
                                   exec |-> exec, returned |-> "none",
                                   outcome |-> "unhandled", shown |-> "none"]
                   /\ UNCHANGED <<styleCopyBtn, timers>>
              ELSE /\ StyleFeedback
                   /\ lastCopy' = [tool |-> "style", api |-> "rejects",
                                   exec |-> exec, returned |-> "undefined",
                                   outcome |-> "ok", shown |-> "copied"]
                   /\ UNCHANGED textareas
    /\ UNCHANGED modalCopyBtn

\* catch branch of the copy-button version's copyToClipboard(text): the
\* value execCommand returns is ignored, only a throw yields false.
InfoFallback(exec) == exec # "throws"

InfoDone(api, exec, success) ==
    [tool |-> "info", api |-> api, exec |-> exec,
     returned |-> IF success THEN "true" ELSE "false",
     outcome |-> "ok", shown |-> "none"]

\* SectionDebug.copyInfo(section) up to the await; a missing
\* navigator.clipboard throws inside the try and runs the catch at once.
InfoCopyCall(api) ==
    /\ RoomForCopy
    /\ IF api = "absent"
       THEN \E exec \in ExecOutcomes :
              /\ lastCopy' = InfoDone(api, exec, InfoFallback(exec))
              /\ UNCHANGED pendingWrites
       ELSE /\ pendingWrites' = Append(pendingWrites,
                 [tool |-> "info", api |-> api, original |-> ""])
            /\ UNCHANGED lastCopy
    /\ UNCHANGED <<modalCopyBtn, styleCopyBtn, timers, textareas>>

\* Continuation of copyToClipboard(text) once writeText() has settled.
InfoCopySettle(i) ==
    /\ i \in 1..Len(pendingWrites)
    /\ pendingWrites[i].tool = "info"
    /\ pendingWrites' = RemoveAt(pendingWrites, i)
    /\ IF pendingWrites[i].api = "resolves"
       THEN lastCopy' = InfoDone("resolves", "none", TRUE)
       ELSE \E exec \in ExecOutcomes :
              lastCopy' = InfoDone("rejects", exec, InfoFallback(exec))
    /\ UNCHANGED <<modalCopyBtn, styleCopyBtn, timers, textareas>>

\* A timer may fire when no timer ahead of it in the queue is due earlier:
\* the per-section timers run 1500 ms, the whole-page ones 2000 ms.
TimerDue(i) ==
    \A j \in 1..(i - 1) :
        timers[j].tool # "modal" /\ timers[j].tool # timers[i].tool

\* The setTimeout callbacks that revert the button feedback.
TimerFire(i) ==
    /\ i \in 1..Len(timers)
    /\ TimerDue(i)
    /\ timers' = RemoveAt(timers, i)
    /\ IF timers[i].tool = "modal"
       THEN /\ modalCopyBtn' =
                 IF timers[i].kind = "success"
                 THEN [modalCopyBtn EXCEPT !.html = timers[i].original,
                                           !.success = FALSE]
                 ELSE [modalCopyBtn EXCEPT !.html = timers[i].original,
                                           !.failBg = FALSE]
            /\ UNCHANGED styleCopyBtn
       ELSE /\ styleCopyBtn' = [text |-> "Copy All", success |-> FALSE]
            /\ UNCHANGED modalCopyBtn
    /\ UNCHANGED <<pendingWrites, textareas, lastCopy>>


(***************************************************************************)
(* Colour normalisation                                                   *)
(***************************************************************************)

\* Strings are sequences of symbols; a computed colour is kept parsed:
\*   missing  : '' / undefined            keyword : 'transparent'
\*   rgb      : 'rgb(r, g, b)'            rgba    : 'rgba(r, g, b, a)'
\*   other    : any other notation, spelled by its text field
Channels == 0..255

ChannelSamples == {0, 255}

AlphaSamples == {"0", "0.5"}

Color(kind, r, g, b, a, text) ==
    [kind |-> kind, r |-> r, g |-> g, b |-> b, a |-> a, text |-> text]

MissingColor == Color("missing", 0, 0, 0, "", "")

KeywordTransparent == Color("keyword", 0, 0, 0, "", "transparent")

OtherNotation == Color("other", 0, 0, 0, "", "color(srgb 1 0 0)")

TransparentBlack == Color("rgba", 0, 0, 0, "0", "")

RgbColors ==
    {Color("rgb", r, g, b, "", "") :
        r \in Channels, g \in ChannelSamples, b \in ChannelSamples}
    \cup {Color("rgb", r, g, b, "", "") :
        r \in ChannelSamples, g \in Channels, b \in ChannelSamples}
    \cup {Color("rgb", r, g, b, "", "") :
        r \in ChannelSamples, g \in ChannelSamples, b \in Channels}

RgbaColors ==
    {Color("rgba", r, g, b, a, "") :
        r \in ChannelSamples, g \in ChannelSamples, b \in ChannelSamples,
        a \in AlphaSamples}

ColorInputs ==
    {MissingColor, KeywordTransparent, OtherNotation} \cup RgbColors \cup RgbaColors

BackgroundSamples ==
    {TransparentBlack, Color("rgb", 255, 255, 255, "", ""),
     Color("rgba", 255, 0, 0, "0", ""), OtherNotation}

BorderSamples == {TransparentBlack, Color("rgb", 225, 229, 234, "", "")}

Transparent == <<"transparent">>

\* What a colour that matches no branch is returned as: the input string.
RawText(c) == <<c.text>>

LowerDigits ==
    <<"0", "1", "2", "3", "4", "5", "6", "7", "8", "9", "a", "b", "c", "d", "e", "f">>

UpperDigits ==
    <<"0", "1", "2", "3", "4", "5", "6", "7", "8", "9", "A", "B", "C", "D", "E", "F">>

\* Number.prototype.toString(16)
RECURSIVE toString16(_)
toString16(n) ==
    IF n < 16
    THEN <<LowerDigits[n + 1]>>
    ELSE toString16(n \div 16) \o <<LowerDigits[(n % 16) + 1]>>

\* padStart(2, '0') left out.
padStartNone(str) == str

\* String.prototype.padStart(2, '0')
padStart2(str) == IF Len(str) < 2 THEN <<"0">> \o str ELSE str

\* String.prototype.toUpperCase(), symbol by symbol.
toUpperCase(str) ==
    [i \in DOMAIN str |->
        IF \E k \in 11..16 : LowerDigits[k] = str[i]
        THEN UpperDigits[CHOOSE k \in 11..16 : LowerDigits[k] = str[i]]
        ELSE str[i]]

\* rgb === 'rgba(0, 0, 0, 0)'
IsTransparentBlack(c) ==
    c.kind = "rgba" /\ c.r = 0 /\ c.g = 0 /\ c.b = 0 /\ c.a = "0"

\* rgb.match(/rgba?\((\d+),\s*(\d+),\s*(\d+)/)
MatchesRgb(c) == c.kind \in {"rgb", "rgba"}

\* rgbToHex of the per-section inspector.
rgbToHex(c) ==
    IF c.kind = "missing" \/ c.kind = "keyword" \/ IsTransparentBlack(c)
    THEN Transparent
    ELSE IF ~MatchesRgb(c)
    THEN RawText(c)
    ELSE toUpperCase(<<"#">> \o padStart2(toString16(c.r))
                           \o padStart2(toString16(c.g))
                           \o padStart2(toString16(c.b)))

\* hex.length === 1 ? '0' + hex : hex
PadOne(hex) == IF Len(hex) = 1 THEN <<"0">> \o hex ELSE hex

\* rgbToHex of the whole-page inspector; null is the empty string here.
rgbToHexWide(c) ==
    IF c.kind = "missing" \/ c.kind = "keyword" \/ IsTransparentBlack(c)
    THEN <<>>
    ELSE IF ~MatchesRgb(c)
    THEN RawText(c)
    ELSE <<"#">> \o toUpperCase(PadOne(toString16(c.r)) \o PadOne(toString16(c.g))
                                \o PadOne(toString16(c.b)))

NoStyle ==
    [color |-> MissingColor, backgroundColor |-> MissingColor,
     borderColor |-> MissingColor]

ColorInit ==
    /\ computed \in [color : ColorInputs, backgroundColor : BackgroundSamples,
                     borderColor : BorderSamples]
    /\ factColors = <<>>
    /\ wideHex = <<>>

\* The colour fields scanSectionComponents stores for an element.
ExtractColors ==
    /\ factColors = <<>>
    /\ factColors' =
         <<[textColor |-> rgbToHex(computed.color),
            bgColor |-> rgbToHex(computed.backgroundColor),
            borderColor |->
                IF rgbToHex(computed.borderColor) # Transparent
                THEN rgbToHex(computed.borderColor)
                ELSE <<>>]>>
    /\ UNCHANGED <<computed, wideHex>>

\* The whole-page scan normalising the element's text colour.
NormalizeWide ==
    /\ wideHex = <<>>
    /\ wideHex' = <<rgbToHexWide(computed.color)>>
    /\ UNCHANGED <<computed, factColors>>


(***************************************************************************)
(* File hints                                                             *)
(***************************************************************************)

\* A class name is a sequence of symbols ("product", "-", "card"); a class
\* attribute is a sequence of class names; no class / null is <<>>; a
\* missing section type is "".
StartsWith(str, prefix) ==
    Len(prefix) <= Len(str) /\ SubSeq(str, 1, Len(prefix)) = prefix

\* The patterns table of guessFileLocation, in order.
Patterns ==
    << [prefix |-> <<"testimonial">>, file |-> <<"sections/testimonials.liquid">>],
       [prefix |-> <<"header2">>, file |-> <<"sections/header2.liquid">>],
       [prefix |-> <<"footer">>, file |-> <<"sections/footer.liquid">>],
       [prefix |-> <<"features", "-", "bar">>, file |-> <<"sections/features-bar.liquid">>],
       [prefix |-> <<"features", "-", "icons">>, file |-> <<"sections/features-icons.liquid">>],
       [prefix |-> <<"product", "-", "card">>, file |-> <<"snippets/product-card.liquid">>],
       [prefix |-> <<"product", "-", "grid">>, file |-> <<"sections/product-grid.liquid">>],
       [prefix |-> <<"banner">>, file |-> <<"sections/banner-image-hero.liquid">>],
       [prefix |-> <<"video", "-", "hero">>, file |-> <<"sections/hero-video.liquid">>],
       [prefix |-> <<"wholesale">>, file |-> <<"sections/wholesale-*.liquid">>],
       [prefix |-> <<"contact">>, file |-> <<"sections/contact-form.liquid">>],
       [prefix |-> <<"cta", "-", "banner">>, file |-> <<"sections/cta-banner.liquid">>],
       [prefix |-> <<"brand">>, file |-> <<"sections/brands-grid.liquid">>],
       [prefix |-> <<"card">>, file |-> <<"snippets/card-*.liquid">>],
       [prefix |-> <<"button">>, file |-> <<"assets/base.css">>],
       [prefix |-> <<"rte">>, file |-> <<"snippets/article-*.liquid">>] >>

DefaultHint == <<"assets/theme-toggle.css (dark mode overrides)">>

\* `sections/${sectionType}.liquid`
SectionFile(sectionType) == <<"sections/", sectionType, ".liquid">>

\* Indices of the patterns whose regex tests true on the class name.
MatchingPatterns(className) ==
    {i \in DOMAIN Patterns : StartsWith(className, Patterns[i].prefix)}

FirstOf(S) == CHOOSE i \in S : \A j \in S : i <= j

\* guessFileLocation with the section-type fallback left out.
guessFileLocationNoType(className, sectionType) ==
    IF className = <<>> THEN <<>>
    ELSE IF MatchingPatterns(className) # {}
    THEN Patterns[FirstOf(MatchingPatterns(className))].file
    ELSE DefaultHint

\* guessFileLocation(className, sectionType)
guessFileLocation(className, sectionType) ==
    IF className = <<>> THEN <<>>
    ELSE IF MatchingPatterns(className) # {}
    THEN Patterns[FirstOf(MatchingPatterns(className))].file
    ELSE IF sectionType # "" THEN SectionFile(sectionType)
    ELSE DefaultHint

\* The classes getPrimaryClass keeps.
KeptClasses(classes) ==
    SelectSeq(classes,
        LAMBDA c : ~StartsWith(c, <<"shopify">>) /\ ~StartsWith(c, <<"color", "-">>))

\* getPrimaryClass(el)
getPrimaryClass(classes) ==
    IF KeptClasses(classes) = <<>> THEN <<>> ELSE Head(KeptClasses(classes))

\* The class name a scanned element is reported under (<<>>: not reported).
ReportedClass(tag, classes) ==
    IF getPrimaryClass(classes) = <<>> /\ tag = "IMG"
    THEN <<"img">>
    ELSE getPrimaryClass(classes)

ShopifySection == <<"shopify", "-", "section">>

ColorScheme == <<"color", "-", "scheme", "-", "1">>

HintClassNames ==
    {Patterns[i].prefix : i \in DOMAIN Patterns}
    \cup { <<"testimonial", "__", "card">>, <<"product", "-", "card", "__", "title">>,
           <<"features", "-", "list">>, <<"my", "-", "card">>, <<"hero">>,
           <<"color">>, <<"img">> }

HintClassLists ==
    { <<>>, <<ShopifySection>>, <<ShopifySection, ColorScheme>> }
    \cup { <<c>> : c \in HintClassNames }
    \cup { <<ShopifySection, c>> : c \in HintClassNames }
    \cup { <<ColorScheme, c>> : c \in HintClassNames }

HintSectionTypes == {"", "testimonials", "hero-video"}

HintPending == [state |-> "pending", hint |-> <<>>]

HintInit ==
    /\ hintIn \in [kind : {"section", "element"}, tag : {"DIV", "IMG"},
                   classes : HintClassLists, sectionType : HintSectionTypes]
    /\ hintIn.kind = "section" => hintIn.tag = "DIV"
    /\ hintOut = HintPending

\* fileHint of the 'Section Container' entry of scanSectionComponents.
ResolveSectionHint ==
    /\ hintOut.state = "pending"
    /\ hintIn.kind = "section"
    /\ hintOut' = [state |-> "resolved",
                   hint |-> guessFileLocation(getPrimaryClass(hintIn.classes),
                                              hintIn.sectionType)]
    /\ UNCHANGED hintIn

\* fileHint of a descendant's entry; an element left without a class name
\* is skipped before any hint is computed.
ResolveElementHint ==
    /\ hintOut.state = "pending"
    /\ hintIn.kind = "element"
    /\ hintOut' =
         IF ReportedClass(hintIn.tag, hintIn.classes) = <<>>
         THEN [state |-> "skipped", hint |-> <<>>]
         ELSE [state |-> "resolved",
               hint |-> guessFileLocation(ReportedClass(hintIn.tag, hintIn.classes),
                                          hintIn.sectionType)]
    /\ UNCHANGED hintIn


(***************************************************************************)
(* Section scan                                                           *)
(***************************************************************************)

\* Number of descendants of the scanned section.
MaxElems == 2

\* The selectors array of scanSectionComponents, in order.
Selectors ==
    << [type |-> "tag", arg |-> "H1"], [type |-> "tag", arg |-> "H2"],
       [type |-> "tag", arg |-> "H3"], [type |-> "tag", arg |-> "H4"],
       [type |-> "tag", arg |-> "H5"], [type |-> "tag", arg |-> "H6"],
       [type |-> "tag", arg |-> "P"], [type |-> "tag", arg |-> "BLOCKQUOTE"],
       [type |-> "class", arg |-> "rte"],
       [type |-> "contains", arg |-> "card"], [type |-> "contains", arg |-> "item"],
       [type |-> "contains", arg |-> "block"],
       [type |-> "class", arg |-> "media"], [type |-> "contains", arg |-> "media"],
       [type |-> "tag", arg |-> "IMG"], [type |-> "tag", arg |-> "PICTURE"],
       [type |-> "tag", arg |-> "VIDEO"],
       [type |-> "contains", arg |-> "badge"], [type |-> "contains", arg |-> "tag"],
       [type |-> "contains", arg |-> "pill"],
       [type |-> "contains", arg |-> "button"], [type |-> "contains", arg |-> "btn"],
       [type |-> "contains", arg |-> "icon"], [type |-> "contains", arg |-> "star"],
       [type |-> "contains", arg |-> "nav"], [type |-> "contains", arg |-> "dot"],
       [type |-> "contains", arg |-> "customer"], [type |-> "contains", arg |-> "service"],
       [type |-> "contains", arg |-> "quote"], [type |-> "contains", arg |-> "text"],
       [type |-> "contains", arg |-> "heading"], [type |-> "contains", arg |-> "title"],
       [type |-> "contains", arg |-> "description"],
       [type |-> "tag", arg |-> "INPUT"], [type |-> "tag", arg |-> "TEXTAREA"],
       [type |-> "tag", arg |-> "SELECT"], [type |-> "tag", arg |-> "LABEL"] >>

\* el.classList.contains(name)
HasClass(el, name) == \E i \in DOMAIN el.classes : el.classes[i] = <<name>>

\* [class*="part"]: the class attribute contains the symbol.
ClassContains(el, part) ==
    \E i \in DOMAIN el.classes : \E k \in DOMAIN el.classes[i] : el.classes[i][k] = part

\* el.matches(selector)
Matches(el, sel) ==
    CASE sel.type = "tag" -> el.tag = sel.arg
      [] sel.type = "class" -> HasClass(el, sel.arg)
      [] sel.type = "contains" -> ClassContains(el, sel.arg)

\* el.closest('.media'): the element or one of its ancestors has the class.
RECURSIVE ClosestMedia(_, _)
ClosestMedia(els, e) ==
    IF e = 0 THEN FALSE
    ELSE HasClass(els[e], "media") \/ ClosestMedia(els, els[e].parent)

\* isMediaElement of the forEach callback.
IsMediaElement(els, e) == els[e].tag = "IMG" \/ ClosestMedia(els, e)

\* el.src ? el.src : 'NO SRC' (a URL of the model is never over 80 long)
ImgSrc(el) == IF el.src = "" THEN "NO SRC" ELSE el.src

\* The object pushed for a reported descendant; el is the position of the
\* element in the document, kept to relate entries to elements.
ElementFact(d, e) ==
    [el |-> e,
     element |-> d.els[e].tag,
     className |-> ReportedClass(d.els[e].tag, d.els[e].classes),
     textColor |-> rgbToHex(d.els[e].color),
     bgColor |-> rgbToHex(d.els[e].backgroundColor),
     fileHint |-> guessFileLocation(ReportedClass(d.els[e].tag, d.els[e].classes),
                                    d.sectionType),
     isHidden |-> d.els[e].hidden,
     isSection |-> FALSE,
     imgSrc |-> IF d.els[e].tag = "IMG" THEN ImgSrc(d.els[e]) ELSE ""]

\* The 'Section Container' entry pushed first.
SectionFact(d) ==
    [el |-> 0,
     element |-> "Section Container",
     className |-> getPrimaryClass(d.classes),
     textColor |-> rgbToHex(d.color),
     bgColor |-> rgbToHex(d.backgroundColor),
     fileHint |-> guessFileLocation(getPrimaryClass(d.classes), d.sectionType),
     isHidden |-> FALSE,
     isSection |-> TRUE,
     imgSrc |-> ""]

\* The forEach callback without its visibility test.
ProcessElementKeepHidden(d, e, st) ==
    LET el == d.els[e]
        className == ReportedClass(el.tag, el.classes)
    IN  IF e \in st.seenEls THEN st
        ELSE IF className = <<>> THEN st
        ELSE IF className \in st.seenClasses /\ el.tag # "IMG" THEN st
        ELSE [seenEls |-> st.seenEls \cup {e},
              seenClasses |-> st.seenClasses \cup {className},
              components |->
                  IF \/ rgbToHex(el.color) # Transparent
                     \/ rgbToHex(el.backgroundColor) # Transparent
                     \/ el.tag = "IMG"
                     \/ IsMediaElement(d.els, e)
                  THEN Append(st.components, ElementFact(d, e))
                  ELSE st.components]

\* The forEach callback over the elements a selector returns; st carries
\* the seen set (elements and class names) and the components so far.
ProcessElement(d, e, st) ==
    LET el == d.els[e]
        className == ReportedClass(el.tag, el.classes)
    IN  IF e \in st.seenEls THEN st
        ELSE IF el.hidden /\ ~IsMediaElement(d.els, e) THEN st
        ELSE IF className = <<>> THEN st
        ELSE IF className \in st.seenClasses /\ el.tag # "IMG" THEN st
        ELSE [seenEls |-> st.seenEls \cup {e},
              seenClasses |-> st.seenClasses \cup {className},
              components |->
                  IF \/ rgbToHex(el.color) # Transparent
                     \/ rgbToHex(el.backgroundColor) # Transparent
                     \/ el.tag = "IMG"
                     \/ IsMediaElement(d.els, e)
                  THEN Append(st.components, ElementFact(d, e))
                  ELSE st.components]

\* The visits made element by element, each element under its selectors.
QueryOrderByElement(d) ==
    SelectSeq(
        [i \in 1..(Len(Selectors) * Len(d.els)) |->
            [k |-> ((i - 1) % Len(Selectors)) + 1, e |-> ((i - 1) \div Len(Selectors)) + 1]],
        LAMBDA p : Matches(d.els[p.e], Selectors[p.k]))

\* The (selector, element) pairs in the order the nested forEach loops
\* visit them: selectors in array order, elements in document order.
QueryOrder(d) ==
    SelectSeq(
        [i \in 1..(Len(Selectors) * Len(d.els)) |->
            [k |-> ((i - 1) \div Len(d.els)) + 1, e |-> ((i - 1) % Len(d.els)) + 1]],
        LAMBDA p : Matches(d.els[p.e], Selectors[p.k]))

\* selectors.forEach(selector => section.querySelectorAll(selector)
\* .forEach(...)) over the first n visits.
RECURSIVE ScanVisits(_, _, _)
ScanVisits(d, visits, n) ==
    IF n = 0
    THEN [seenEls |-> {}, seenClasses |-> {}, components |-> <<SectionFact(d)>>]
    ELSE ProcessElement(d, visits[n].e, ScanVisits(d, visits, n - 1))

\* scanSectionComponents(section)
scanSectionComponents(d) ==
    LET visits == QueryOrder(d)
    IN  ScanVisits(d, visits, Len(visits)).components

OpaqueText == Color("rgb", 43, 44, 45, "", "")

\* Descendants: containers and headings in every combination of class,
\* visibility and styling; images in every combination of class, visibility
\* and source (the colours of an image enter no decision of the scan).
ScanClassLists == { <<>>, << <<"card">> >>, << <<"media">> >> }

\* A heading carries no class or a component class, never the media wrapper.
HeadingClassLists == { <<>>, << <<"card">> >> }

ScanElementsAt(p) ==
    [tag : {"DIV"}, classes : ScanClassLists, hidden : BOOLEAN,
     color : {TransparentBlack, OpaqueText}, backgroundColor : {TransparentBlack},
     src : {""}, parent : p]
    \cup
    [tag : {"H2"}, classes : HeadingClassLists, hidden : BOOLEAN,
     color : {TransparentBlack, OpaqueText}, backgroundColor : {TransparentBlack},
     src : {""}, parent : p]
    \cup
    [tag : {"IMG"}, classes : ScanClassLists, hidden : BOOLEAN,
     color : {OpaqueText}, backgroundColor : {TransparentBlack},
     src : {"", "a.png"}, parent : p]

\* An element is a child of the section (0) or of an earlier media wrapper.
WellNested(els) ==
    \A e \in DOMAIN els :
        els[e].parent = 0
        \/ (els[e].parent < e /\ HasClass(els[els[e].parent], "media"))

ScanDocs ==
    {d \in [classes : { <<ShopifySection>>, <<ShopifySection, <<"card">> >> },
            sectionType : {"testimonials"},
            color : {OpaqueText}, backgroundColor : {TransparentBlack},
            els : [1..MaxElems -> ScanElementsAt(0..(MaxElems - 1))]] :
        WellNested(d.els)}

ScanInit ==
    /\ doc \in ScanDocs
    /\ report = <<>>

\* SectionDebug.scanComponents(section)
ScanSection ==
    /\ report = <<>>
    /\ report' = scanSectionComponents(doc)
    /\ UNCHANGED doc


(***************************************************************************)
(* Panels and toast                                                       *)
(***************************************************************************)

NoModal == [count |-> 0, active |-> FALSE, keyListeners |-> 0]

NoToast == [ref |-> FALSE, count |-> 0]

NoOp == [op |-> "none", sectionWasOpen |-> FALSE, styleWasOpen |-> FALSE]

\* The record of an operation, with the panels that were open before it.
Op(name) ==
    [op |-> name, sectionWasOpen |-> sectionModal.active,
     styleWasOpen |-> styleModal.active]

PanelInit ==
    /\ sectionModal = NoModal
    /\ styleModal = NoModal
    /\ bodyOverflow = ""
    /\ toast = NoToast
    /\ inspectorMode = FALSE
    /\ lastOp = NoOp

\* createModal(): an element with the id is removed, a new one is appended;
\* the per-section version also registers a keydown listener on document.
createModal(m, listens) ==
    [count |-> (IF m.count > 0 THEN m.count - 1 ELSE 0) + 1,
     active |-> FALSE,
     keyListeners |-> IF listens THEN m.keyListeners + 1 ELSE m.keyListeners]

\* The lookup of showModal() creating a modal on every call.
EnsureModalAlways(m, listens) ==
    [count |-> m.count + 1, active |-> FALSE,
     keyListeners |-> IF listens THEN m.keyListeners + 1 ELSE m.keyListeners]

\* let modal = document.getElementById(ID); if (!modal) modal = createModal()
EnsureModal(m, listens) == IF m.count = 0 THEN createModal(m, listens) ELSE m

\* The modal after hideModal().
hideModal(m) == IF m.count > 0 THEN [m EXCEPT !.active = FALSE] ELSE m

\* document.body.style.overflow after hideModal().
OverflowAfterHide(m) == IF m.count > 0 THEN "" ELSE bodyOverflow

\* SectionDebug.inspect(section) / click on an inspect control.
InspectSection ==
    /\ sectionModal' = [EnsureModal(sectionModal, TRUE) EXCEPT !.active = TRUE]
    /\ bodyOverflow' = "hidden"
    /\ lastOp' = Op("inspect")
    /\ UNCHANGED <<styleModal, toast, inspectorMode>>

\* Overlay click, close button or SectionDebug.hide(); the two elements
\* exist once the modal has been created.
SectionDismiss(via) ==
    /\ via \in {"sectionOverlay", "sectionClose"} => sectionModal.count > 0
    /\ sectionModal' = hideModal(sectionModal)
    /\ bodyOverflow' = OverflowAfterHide(sectionModal)
    /\ lastOp' = Op(via)
    /\ UNCHANGED <<styleModal, toast, inspectorMode>>

\* StyleDebug.show()
StyleShow ==
    /\ styleModal' = [EnsureModal(styleModal, FALSE) EXCEPT !.active = TRUE]
    /\ bodyOverflow' = "hidden"
    /\ lastOp' = Op("styleShow")
    /\ UNCHANGED <<sectionModal, toast, inspectorMode>>

\* Overlay click, close button or StyleDebug.hide().
StyleDismiss(via) ==
    /\ via \in {"styleOverlay", "styleClose"} => styleModal.count > 0
    /\ styleModal' = hideModal(styleModal)
    /\ bodyOverflow' = OverflowAfterHide(styleModal)
    /\ lastOp' = Op(via)
    /\ UNCHANGED <<sectionModal, toast, inspectorMode>>

\* StyleDebug.toggle() / click on the .debug-modal-trigger button.
StyleToggle ==
    /\ IF styleModal.count > 0 /\ styleModal.active
       THEN /\ styleModal' = hideModal(styleModal)
            /\ bodyOverflow' = OverflowAfterHide(styleModal)
       ELSE /\ styleModal' = [EnsureModal(styleModal, FALSE) EXCEPT !.active = TRUE]
            /\ bodyOverflow' = "hidden"
    /\ lastOp' = Op("styleToggle")
    /\ UNCHANGED <<sectionModal, toast, inspectorMode>>

\* Click on Rescan: refreshScan() re-renders the panels of the open modal.
StyleRescan ==
    /\ styleModal.count > 0
    /\ lastOp' = Op("styleRescan")
    /\ UNCHANGED <<sectionModal, styleModal, bodyOverflow, toast, inspectorMode>>

\* StyleDebug.inspect(): enableInspector()
StyleInspect ==
    /\ inspectorMode' = TRUE
    /\ lastOp' = Op("styleInspect")
    /\ UNCHANGED <<sectionModal, styleModal, bodyOverflow, toast>>

\* An Escape keydown on document: every listener of the per-section modal
\* runs hideModal(); the whole-page tool listens only while its element
\* picker is on, and then turns the picker off.
EscapeKey ==
    /\ sectionModal' =
         IF sectionModal.keyListeners > 0 THEN hideModal(sectionModal) ELSE sectionModal
    /\ bodyOverflow' =
         IF sectionModal.keyListeners > 0
         THEN OverflowAfterHide(sectionModal) ELSE bodyOverflow
    /\ inspectorMode' = FALSE
    /\ lastOp' = Op("escape")
    /\ UNCHANGED <<styleModal, toast>>

\* createToast(): if (toast) return toast; otherwise one element is appended.
createToast(t) == IF t.ref THEN t ELSE [ref |-> TRUE, count |-> t.count + 1]

\* A successful copy of the copy-button version: handleCopyClick shows the
\* toast through showToast().
CopyShowsToast ==
    /\ toast' = createToast(toast)
    /\ lastOp' = Op("toast")
    /\ UNCHANGED <<sectionModal, styleModal, bodyOverflow, inspectorMode>>


(***************************************************************************)
(* Section type                                                           *)
(***************************************************************************)

\* A JavaScript value that is null or a string (a sequence of symbols).
Null == [isNull |-> TRUE, str |-> <<>>]

Str(s) == [isNull |-> FALSE, str |-> s]

\* Truthiness: neither null nor the empty string.
Truthy(v) == ~v.isNull /\ v.str # <<>>

\* String(v), as the dataset setter and template literals convert.
StringOf(v) == IF v.isNull THEN <<"null">> ELSE v.str

Unknown == <<"unknown">>

\* v || 'unknown'
OrUnknown(v) == IF Truthy(v) THEN StringOf(v) ELSE Unknown

\* Symbols of an element id: words of letters, digit runs, '-', '_'.
IdWords == {"hero", "banner"}

IdDigits == {"1", "42"}

\* The symbols [a-z0-9-] accepts.
TypeSymbols == IdWords \cup IdDigits \cup {"-"}

\* The symbols [a-zA-Z0-9] accepts.
AlnumSymbols == IdWords \cup IdDigits

\* The longest prefix of str made of symbols of the class.
RECURSIVE LongestPrefix(_, _)
LongestPrefix(str, class) ==
    IF str = <<>> THEN <<>>
    ELSE IF Head(str) \notin class THEN <<>>
    ELSE <<Head(str)>> \o LongestPrefix(Tail(str), class)

\* Length of the longest suffix of str made of symbols of the class.
RECURSIVE SuffixRun(_, _)
SuffixRun(str, class) ==
    IF str = <<>> THEN 0
    ELSE IF str[Len(str)] \notin class THEN 0
    ELSE 1 + SuffixRun(SubSeq(str, 1, Len(str) - 1), class)

\* str.replace(/<sep><class>+$/, ''): a run of class symbols ending the
\* string and preceded by the separator is removed with the separator.
StripSuffix(str, sep, class) ==
    LET n == SuffixRun(str, class)
    IN  IF n > 0 /\ Len(str) > n /\ str[Len(str) - n] = sep
        THEN SubSeq(str, 1, Len(str) - n - 1)
        ELSE str

\* The part of the id after 'shopify-section-', with the
\* 'template--<digits>--' part spelled out when the id has one.
TemplatePart == <<"template", "-", "-", "42", "-", "-">>

AfterPrefix(id) == (IF id.template THEN TemplatePart ELSE <<>>) \o id.rest

\* Group 1 of /shopify-section-(?:template--\d+--)?([a-z0-9-]+)/i: the
\* optional group is taken when the capture after it is not empty, else the
\* capture starts right after the prefix.
IdCapture(id) ==
    IF ~id.prefixed THEN <<>>
    ELSE IF id.template /\ LongestPrefix(id.rest, TypeSymbols) # <<>>
    THEN LongestPrefix(id.rest, TypeSymbols)
    ELSE LongestPrefix(AfterPrefix(id), TypeSymbols)

\* The two replace() calls applied to the capture.
CleanIdType(capture) ==
    StripSuffix(StripSuffix(capture, "_", AlnumSymbols), "-", IdDigits)

SectionPadding == <<"section", "-", "padding">>

\* cls.startsWith('section-') && cls !== 'section-padding'
IsSectionTypeClass(cls) == StartsWith(cls, <<"section", "-">>) /\ cls # SectionPadding

\* The classes the for loop of getSectionType returns from.
SectionTypeClasses(classes) == SelectSeq(classes, IsSectionTypeClass)

\* cls.replace('section-', '')
WithoutSectionPrefix(cls) == SubSeq(cls, 3, Len(cls))

\* getSectionType(section); inner lists the data-section-type values of the
\* descendants carrying the attribute, querySelector returning the first.
getSectionType(c) ==
    IF c.attr # <<>> THEN Str(c.attr)
    ELSE IF c.inner # <<>> /\ Head(c.inner) # <<>> THEN Str(Head(c.inner))
    ELSE IF IdCapture(c.id) # <<>> THEN Str(CleanIdType(IdCapture(c.id)))
    ELSE IF SectionTypeClasses(c.classes) # <<>>
    THEN Str(WithoutSectionPrefix(Head(SectionTypeClasses(c.classes))))
    ELSE Null

TypeAttrs == { <<>>, <<"slideshow">> }

TypeInners == { <<>>, << <<"video">> >>, << <<>> >> }

TypeIdRests ==
    { <<>>, <<"hero">>, <<"hero", "-", "banner">>, <<"hero", "-", "1">>,
      <<"hero", "_", "banner">>, <<"-", "1">>, <<"_", "hero">>, <<"42">> }

TypeIds ==
    {id \in [prefixed : BOOLEAN, template : BOOLEAN, rest : TypeIdRests] :
        ~id.prefixed => (~id.template /\ id.rest = <<>>)}

TypeClassLists ==
    { <<>>, <<ShopifySection>>, <<ShopifySection, SectionPadding>>,
      <<ShopifySection, <<"section", "-", "hero">> >>,
      <<ShopifySection, SectionPadding, <<"section", "-", "hero">> >> }

NothingDerived ==
    [state |-> "none", type |-> Null, infoType |-> <<>>, panelLine |-> <<>>,
     dataset |-> <<>>, header |-> <<>>]

TypeInit ==
    /\ container \in [attr : TypeAttrs, inner : TypeInners, id : TypeIds,
                      classes : TypeClassLists]
    /\ derived = NothingDerived

\* SectionDebug.getInfo(section) of the copy-button version: buildDebugInfo.
GetInfo ==
    /\ derived.infoType = <<>>
    /\ derived' = [derived EXCEPT !.type = getSectionType(container),
                                  !.infoType = OrUnknown(getSectionType(container))]
    /\ UNCHANGED container

\* showModal(section): the section line of the panel and the type stored in
\* the modal's dataset for the copy.
ShowSectionType ==
    /\ derived.state = "none"
    /\ derived' = [derived EXCEPT !.state = "shown",
                                  !.type = getSectionType(container),
                                  !.panelLine = OrUnknown(getSectionType(container)),
                                  !.dataset = StringOf(getSectionType(container))]
    /\ UNCHANGED container

\* copyToClipboard(modal): the header line of the text export.
CopyHeader ==
    /\ derived.state = "shown"
    /\ derived' = [derived EXCEPT !.state = "copied",
                                  !.header = OrUnknown(Str(derived.dataset))]
    /\ UNCHANGED container


(***************************************************************************)
(* Whole-page style scan                                                  *)
(***************************************************************************)

\* Largest number of elements of a scanned page.
MaxPage == 4

\* Largest measured spacing of the model, in tenths of a pixel.
MaxSpacing == 1320

\* EXPECTED.spacingValues
spacingValues == {0, 4, 8, 12, 16, 20, 24, 28, 32, 40, 48, 56, 64, 80, 96, 112, 128}

HexString(a, b, c, d, e, f) == <<"#", a, b, c, d, e, f>>

\* EXPECTED.lightColors
lightColors ==
    { HexString("F", "5", "F", "7", "F", "A"), HexString("F", "F", "F", "F", "F", "F"),
      HexString("2", "B", "2", "C", "2", "D"), HexString("0", "0", "5", "4", "9", "6"),
      HexString("D", "D", "6", "7", "2", "7"), HexString("2", "8", "A", "7", "4", "5"),
      HexString("E", "1", "E", "5", "E", "A") }

\* EXPECTED.darkColors
darkColors ==
    { HexString("0", "F", "1", "7", "2", "A"), HexString("1", "E", "2", "9", "3", "B"),
      HexString("F", "1", "F", "5", "F", "9"), HexString("6", "0", "A", "5", "F", "A"),
      HexString("F", "2", "8", "C", "3", "8"), HexString("3", "9", "B", "4", "7", "E"),
      HexString("2", "D", "3", "A", "5", "0") }

White == HexString("F", "F", "F", "F", "F", "F")

Black == HexString("0", "0", "0", "0", "0", "0")

\* Math.round of a positive measure given in tenths.
Round(tenths) == (tenths + 5) \div 10

Abs(n) == IF n < 0 THEN -n ELSE n

\* isConsistentSpacing(value), value in tenths of a pixel
isConsistentSpacing(tenths) ==
    \E expected \in spacingValues : Abs(Round(tenths) - expected) <= 2

\* parseSpacingValue(value): 0 stands for null ('auto', 'normal', '0px').
parseSpacingValue(tenths) == tenths

\* The systemFonts list of isExpectedFontFamily.
SystemFonts ==
    {"system-ui", "-apple-system", "blinkmacsystemfont", "segoe ui", "roboto",
     "helvetica neue", "arial", "sans-serif", "noto sans", "liberation sans",
     "helvetica"}

\* isExpectedFontFamily(fontFamily); a font-family is its list of names.
isExpectedFontFamily(fontFamily) ==
    \E i \in DOMAIN fontFamily : fontFamily[i] \in SystemFonts

\* isThemeColor(hexColor)
isThemeColor(hexColor, theme) ==
    \/ hexColor = <<>>
    \/ hexColor \in (IF theme = "dark" THEN darkColors ELSE lightColors)
    \/ hexColor \in {White, Black}

\* getElementSelector(el) of the whole-page tool
StyleSelector(el) ==
    <<el.tag>> \o (IF el.cls # "" THEN <<".", el.cls>> ELSE <<>>)

\* Position of the key in a Map kept as a sequence in insertion order.
KeyIndex(map, key) ==
    IF \E i \in DOMAIN map : map[i].key = key
    THEN CHOOSE i \in DOMAIN map : map[i].key = key
    ELSE 0

\* if (!map.has(key)) map.set(key, fresh)
SetIfAbsent(map, key, fresh) ==
    IF KeyIndex(map, key) = 0 THEN Append(map, fresh) ELSE map

\* map.get(key).push(selector), the font-family table
PushSelector(map, key, selector) ==
    [map EXCEPT ![KeyIndex(map, key)].elements = Append(@, selector)]

\* if (map.get(key).length < 3) map.get(key).push(selector)
PushSelectorCapped(map, key, selector) ==
    IF Len(map[KeyIndex(map, key)].elements) < 3
    THEN PushSelector(map, key, selector)
    ELSE map

EmptyMaps ==
    [seenFontFamilies |-> <<>>, seenFontSizes |-> <<>>, seenFontWeights |-> <<>>,
     seenColors |-> <<>>, seenSpacing |-> <<>>]

\* The font-family block of the forEach callback.
AddFontFamily(maps, el) ==
    IF el.fontFamily # <<>> /\ ~isExpectedFontFamily(el.fontFamily)
    THEN [maps EXCEPT !.seenFontFamilies =
            PushSelector(SetIfAbsent(@, el.fontFamily,
                                     [key |-> el.fontFamily, elements |-> <<>>]),
                         el.fontFamily, StyleSelector(el))]
    ELSE maps

\* The font-size block.
AddFontSize(maps, el) ==
    IF el.fontSize # 0
    THEN [maps EXCEPT !.seenFontSizes =
            PushSelectorCapped(SetIfAbsent(@, el.fontSize,
                                           [key |-> el.fontSize, elements |-> <<>>]),
                               el.fontSize, StyleSelector(el))]
    ELSE maps

\* The font-weight block.
AddFontWeight(maps, el) ==
    IF el.fontWeight # 0
    THEN [maps EXCEPT !.seenFontWeights =
            PushSelectorCapped(SetIfAbsent(@, el.fontWeight,
                                           [key |-> el.fontWeight, elements |-> <<>>]),
                               el.fontWeight, StyleSelector(el))]
    ELSE maps

\* The text-colour block; the key of a Map entry is the hex string.
AddTextColor(maps, el, theme) ==
    LET color == rgbToHexWide(el.color)
        key == [bg |-> FALSE, hex |-> color]
    IN  IF color # <<>> /\ color # Black /\ color # White
        THEN [maps EXCEPT !.seenColors =
                PushSelectorCapped(
                    SetIfAbsent(@, key, [key |-> key, elements |-> <<>>,
                                         isTheme |-> isThemeColor(color, theme),
                                         isBg |-> FALSE]),
                    key, StyleSelector(el))]
        ELSE maps

\* The background-colour block; the key is 'bg:' + hex.
AddBackground(maps, el, theme) ==
    LET bgColor == rgbToHexWide(el.backgroundColor)
        key == [bg |-> TRUE, hex |-> bgColor]
    IN  IF bgColor # <<>>
        THEN [maps EXCEPT !.seenColors =
                PushSelectorCapped(
                    SetIfAbsent(@, key, [key |-> key, elements |-> <<>>,
                                         isTheme |-> isThemeColor(bgColor, theme),
                                         isBg |-> TRUE]),
                    key, StyleSelector(el))]
        ELSE maps

\* The callback of spacingProps.forEach for one property of the element.
AddSpacing(map, el, entry) ==
    LET value == parseSpacingValue(entry.value)
        key == Round(value)
        fresh == [key |-> key, elements |-> <<>>, properties |-> {},
                  isConsistent |-> isConsistentSpacing(value)]
        with == SetIfAbsent(map, key, fresh)
        labelled == [with EXCEPT ![KeyIndex(with, key)].properties = @ \cup {entry.label}]
    IN  IF value > 0
        THEN PushSelectorCapped(labelled, key, StyleSelector(el))
        ELSE map

\* spacingProps.forEach over the first n properties of the element.
RECURSIVE AddSpacings(_, _, _)
AddSpacings(map, el, n) ==
    IF n = 0 THEN map
    ELSE AddSpacing(AddSpacings(map, el, n - 1), el, el.spacing[n])

\* The forEach callback of scanStyles for one element.
ScanElement(maps, el, theme) ==
    IF el.inModal \/ el.hidden THEN maps
    ELSE LET m1 == AddFontFamily(maps, el)
             m2 == AddFontSize(m1, el)
             m3 == AddFontWeight(m2, el)
             m4 == AddTextColor(m3, el, theme)
             m5 == AddBackground(m4, el, theme)
         IN  [m5 EXCEPT !.seenSpacing = AddSpacings(@, el, Len(el.spacing))]

\* elements.forEach over the first n elements of the page.
RECURSIVE ScanElements(_, _)
ScanElements(p, n) ==
    IF n = 0 THEN EmptyMaps
    ELSE ScanElement(ScanElements(p, n - 1), p.els[n], p.theme)

\* Array.prototype.sort by the numeric key, stable.
RECURSIVE SortByKey(_)
SortByKey(map) ==
    IF map = <<>> THEN <<>>
    ELSE LET least == CHOOSE i \in DOMAIN map :
                        /\ \A j \in DOMAIN map : map[i].key <= map[j].key
                        /\ \A j \in 1..(i - 1) : map[j].key # map[i].key
         IN  <<map[least]>> \o SortByKey(RemoveAt(map, least))

\* The sort of the colour table: entries off the theme first, stable.
SortByTheme(entries) ==
    SelectSeq(entries, LAMBDA x : ~x.isTheme) \o SelectSeq(entries, LAMBDA x : x.isTheme)

\* scanStyles(): the tables built from the Maps.
scanStyles(p) ==
    LET maps == ScanElements(p, Len(p.els))
    IN  [fontFamily |->
            [i \in DOMAIN maps.seenFontFamilies |->
                [value |-> maps.seenFontFamilies[i].key,
                 elements |-> maps.seenFontFamilies[i].elements]],
         fontSize |->
            [i \in DOMAIN maps.seenFontSizes |->
                [value |-> SortByKey(maps.seenFontSizes)[i].key,
                 elements |-> SortByKey(maps.seenFontSizes)[i].elements]],
         fontWeight |->
            [i \in DOMAIN maps.seenFontWeights |->
                [value |-> SortByKey(maps.seenFontWeights)[i].key,
                 elements |-> SortByKey(maps.seenFontWeights)[i].elements]],
         color |->
            SortByTheme(
                [i \in DOMAIN maps.seenColors |->
                    [value |-> maps.seenColors[i].key,
                     elements |-> maps.seenColors[i].elements,
                     isTheme |-> maps.seenColors[i].isTheme,
                     isBg |-> maps.seenColors[i].isBg]]),
         spacing |->
            [i \in DOMAIN maps.seenSpacing |->
                [value |-> SortByKey(maps.seenSpacing)[i].key,
                 elements |-> SortByKey(maps.seenSpacing)[i].elements,
                 properties |-> SortByKey(maps.seenSpacing)[i].properties,
                 isConsistent |-> SortByKey(maps.seenSpacing)[i].isConsistent]]]

Georgia == <<"Georgia", "serif">>

SystemStack == <<"system-ui", "sans-serif">>

AccentText == Color("rgb", 221, 103, 39, "", "")

OffThemeText == Color("rgb", 255, 0, 0, "", "")

WhiteBackground == Color("rgb", 255, 255, 255, "", "")

\* Elements sharing size, weight and spacing, in every combination of font
\* family, text colour and background.
SharedStyleElems ==
    [tag : {"p"}, cls : {"rte"}, hidden : {FALSE}, inModal : {FALSE},
     fontFamily : {Georgia, SystemStack}, fontSize : {16}, fontWeight : {400},
     color : {AccentText, OffThemeText},
     backgroundColor : {TransparentBlack, WhiteBackground},
     spacing : {<<[label |-> "margin-top", value |-> 160],
                  [label |-> "padding-top", value |-> 160]>>}]

\* One element with one measured margin, anywhere on the page.
MeasuredElems ==
    [tag : {"div"}, cls : {""}, hidden : BOOLEAN, inModal : BOOLEAN,
     fontFamily : {SystemStack}, fontSize : {14}, fontWeight : {700},
     color : {OpaqueText}, backgroundColor : {TransparentBlack},
     spacing : {<<[label |-> "margin-top", value |-> v]>> : v \in 0..MaxSpacing}]

Pages ==
    [theme : {"light", "dark"},
     els : UNION {[1..n -> SharedStyleElems] : n \in 1..MaxPage}]
    \cup [theme : {"light"}, els : {<<e>> : e \in MeasuredElems}]

StyleInit ==
    /\ page \in Pages
    /\ tables = <<>>

\* StyleDebug.scan()
ScanStyles ==
    /\ tables = <<>>
    /\ tables' = <<scanStyles(page)>>
    /\ UNCHANGED page


(***************************************************************************)
(* Report objects                                                         *)
(***************************************************************************)

\* Number of reports a scan returns in the model.
MaxReports == 3

\* let inconsistencies = { fontFamily: [], ... }: the object the variable
\* holds before the first scan; no caller has received it.
NoReport ==
    [kind |-> "styles", returned |-> FALSE,
     value |-> [fontFamily |-> <<>>, fontSize |-> <<>>, fontWeight |-> <<>>,
                color |-> <<>>, spacing |-> <<>>]]

\* Pages of one paragraph, differing in font family and text colour.
ReportPages ==
    [theme : {"light"},
     els : {<<e>> : e \in {x \in SharedStyleElems :
                              x.backgroundColor = TransparentBlack}}]

\* Sections of one visible class-less image, with and without a source.
ReportDocs ==
    [classes : {<<ShopifySection>>}, sectionType : {"testimonials"},
     color : {OpaqueText}, backgroundColor : {TransparentBlack},
     els : {<<e>> : e \in {x \in ScanElementsAt({0}) :
                              x.tag = "IMG" /\ ~x.hidden /\ x.classes = <<>>}}]

ReportIdle ==
    /\ heap = <<NoReport>>
    /\ current = 1

ReportInit ==
    /\ page \in ReportPages
    /\ tables = <<>>
    /\ doc \in ReportDocs
    /\ report = <<>>
    /\ ReportIdle

\* The page changes between two scans.
EditPage ==
    /\ page' \in ReportPages \ {page}
    /\ UNCHANGED <<tables, doc, report, heap, current>>

\* The section changes between two scans.
EditSection ==
    /\ doc' \in ReportDocs \ {doc}
    /\ UNCHANGED <<page, tables, report, heap, current>>

\* scanStyles() run on the object the variable already holds.
ScanStylesInPlace ==
    /\ Len(heap) < MaxReports + 1
    /\ heap' = [heap EXCEPT ![current] =
                    [kind |-> "styles", returned |-> TRUE, value |-> scanStyles(page)]]
    /\ UNCHANGED <<current, page, tables, doc, report>>

\* scanStyles() behind StyleDebug.scan(), refreshScan(), showModal() and
\* copyAllToClipboard(): the variable is given a new object, the tables are
\* written into it and it is returned.
ScanStylesCall ==
    /\ Len(heap) < MaxReports + 1
    /\ heap' = Append(heap, [kind |-> "styles", returned |-> TRUE,
                             value |-> scanStyles(page)])
    /\ current' = Len(heap) + 1
    /\ UNCHANGED <<page, tables, doc, report>>

\* scanSectionComponents(section) behind SectionDebug.scanComponents() and
\* showModal(section): the components are pushed to a new array.
ScanComponentsCall ==
    /\ Len(heap) < MaxReports + 1
    /\ heap' = Append(heap, [kind |-> "components", returned |-> TRUE,
                             value |-> scanSectionComponents(doc)])
    /\ UNCHANGED <<current, page, tables, doc, report>>


(***************************************************************************)
(* Theme mode                                                             *)
(***************************************************************************)

THEME_LIGHT == <<"light">>

THEME_DARK == <<"dark">>

\* The versions of the script: the switch of theme-toggle.js, the two
\* buttons of the second version, the version without the system listener.
ThemeScripts == {"switch", "buttons", "smooth"}

\* The versions that listen to changes of the system colour scheme.
ListensToSystem(script) == script \in {"switch", "buttons"}

\* getThemePreference(): the stored value if truthy, else the system
\* preference (not consulted by the last version), else light.
getThemePreference(script, stored, dark) ==
    IF Truthy(stored) THEN stored.str
    ELSE IF ListensToSystem(script) /\ dark THEN THEME_DARK
    ELSE THEME_LIGHT

\* ThemeToggle.get() / getTheme(): the attribute, or light when it is
\* missing or empty.
getTheme(attr) == IF Truthy(attr) THEN attr.str ELSE THEME_LIGHT

\* The other theme, as toggleTheme() and toggle() compute it.
Toggled(attr) == IF getTheme(attr) = THEME_LIGHT THEN THEME_DARK ELSE THEME_LIGHT

NoEvent == [theme |-> Null, isInitial |-> FALSE]

\* setTheme(theme) without the write to localStorage.
setThemeUnstored(theme) ==
    /\ dataTheme' = Str(theme)
    /\ UNCHANGED storedTheme
    /\ themeEvent' = [theme |-> Str(theme),
                      isInitial |-> themeScript = "smooth" /\ ~htmlReady]

\* setTheme(theme): the attribute and the stored item are both written and
\* 'themechange' is dispatched; the last version adds isInitial: !isReady.
setTheme(theme) ==
    /\ dataTheme' = Str(theme)
    /\ storedTheme' = Str(theme)
    /\ themeEvent' = [theme |-> Str(theme),
                      isInitial |-> themeScript = "smooth" /\ ~htmlReady]

\* Arguments a caller passes to setTheme, and values of data-theme-value.
ThemeArgs == {THEME_LIGHT, THEME_DARK, <<"sepia">>, <<>>}

\* The script has been evaluated: the early application has set the
\* attribute; init() waits for DOMContentLoaded. The stored item is absent
\* or a value an earlier visit stored.
ThemeInit ==
    /\ themeScript \in ThemeScripts
    /\ themePhase = "pending"
    /\ storedTheme \in {Null} \cup {Str(t) : t \in ThemeArgs}
    /\ systemDark \in BOOLEAN
    /\ dataTheme = Str(getThemePreference(themeScript, storedTheme, systemDark))
    /\ htmlReady = FALSE
    /\ themeEvent = NoEvent
    /\ userChose = (storedTheme # Null)

ThemeIdle ==
    /\ themeScript = "switch"
    /\ themePhase = "pending"
    /\ dataTheme = Null
    /\ storedTheme = Null
    /\ systemDark = FALSE
    /\ htmlReady = FALSE
    /\ themeEvent = NoEvent
    /\ userChose = FALSE

\* init(): the preference is applied through setTheme, then the click and
\* system listeners are registered.
InitTheme ==
    /\ themePhase = "pending"
    /\ themePhase' = "ready"
    /\ setTheme(getThemePreference(themeScript, storedTheme, systemDark))
    /\ UNCHANGED <<themeScript, systemDark, htmlReady, userChose>>

\* setThemeReady(): the animation-frame callback requested by init() adds
\* the class theme-ready to the root element.
MarkThemeReady ==
    /\ themeScript = "smooth"
    /\ themePhase = "ready"
    /\ ~htmlReady
    /\ htmlReady' = TRUE
    /\ UNCHANGED <<themeScript, themePhase, dataTheme, storedTheme, systemDark,
                   themeEvent, userChose>>

\* ThemeToggle.set(theme) / ThemeToggle.setTheme(theme)
SetThemeCall(theme) ==
    /\ setTheme(theme)
    /\ userChose' = TRUE
    /\ UNCHANGED <<themeScript, themePhase, systemDark, htmlReady>>

\* ThemeToggle.toggle()
ToggleCall ==
    /\ setTheme(Toggled(dataTheme))
    /\ userChose' = TRUE
    /\ UNCHANGED <<themeScript, themePhase, systemDark, htmlReady>>

\* A click on the switch: the click listener of init() runs toggleTheme().
ToggleClick ==
    /\ themeScript = "switch"
    /\ themePhase = "ready"
    /\ setTheme(Toggled(dataTheme))
    /\ userChose' = TRUE
    /\ UNCHANGED <<themeScript, themePhase, systemDark, htmlReady>>

\* A click on a theme button: setTheme(value) if data-theme-value is truthy.
ButtonClick(value) ==
    /\ themeScript \in {"buttons", "smooth"}
    /\ themePhase = "ready"
    /\ Truthy(value)
    /\ setTheme(value.str)
    /\ userChose' = TRUE
    /\ UNCHANGED <<themeScript, themePhase, systemDark, htmlReady>>

\* The system colour scheme changes; the 'change' listener of init() calls
\* setTheme only if no truthy value is stored.
SystemChange ==
    /\ systemDark' = ~systemDark
    /\ IF themePhase = "ready" /\ ListensToSystem(themeScript) /\ ~Truthy(storedTheme)
       THEN setTheme(IF systemDark' THEN THEME_DARK ELSE THEME_LIGHT)
       ELSE UNCHANGED <<dataTheme, storedTheme, themeEvent>>
    /\ UNCHANGED <<themeScript, themePhase, htmlReady, userChose>>


(***************************************************************************)
(* Text export of the per-section panel                                   *)
(***************************************************************************)

\* Largest number of descendants of an exported section.
MaxEntries == 2

\* getCSSVariable(el, property): the variable named by var(...) in the
\* inline style for that property, or null.
getCSSVariable(el, property) ==
    IF property = "color" THEN el.inlineColorVar ELSE el.inlineBgVar

\* x !== 'transparent' ? x : null
UnlessTransparent(hex) == IF hex # Transparent THEN Str(hex) ELSE Null

\* The object scanSectionComponents pushes for a descendant, with the
\* colour, provenance, image and hint fields; the layout and font fields,
\* which are computed strings that are always exported, are left out.
Component(d, e) ==
    [element |-> Str(<<ElementFact(d, e).element>>),
     className |-> Str(ElementFact(d, e).className),
     textColor |-> Str(ElementFact(d, e).textColor),
     textVar |-> getCSSVariable(d.els[e], "color"),
     bgColor |-> Str(ElementFact(d, e).bgColor),
     bgVar |-> getCSSVariable(d.els[e], "background-color"),
     borderColor |-> UnlessTransparent(rgbToHex(d.els[e].borderColor)),
     fileHint |-> Str(ElementFact(d, e).fileHint),
     imgSrc |-> IF d.els[e].tag = "IMG"
                THEN Str(<<ElementFact(d, e).imgSrc>>) ELSE Null]

\* The object pushed for the section container; the fields it does not
\* have read as undefined, which is falsy like null.
SectionComponent(d) ==
    [element |-> Str(<<SectionFact(d).element>>),
     className |-> IF SectionFact(d).className = <<>>
                   THEN Null ELSE Str(SectionFact(d).className),
     textColor |-> Str(SectionFact(d).textColor),
     textVar |-> Null,
     bgColor |-> Str(SectionFact(d).bgColor),
     bgVar |-> Null,
     borderColor |-> Null,
     fileHint |-> Str(SectionFact(d).fileHint),
     imgSrc |-> Null]

\* The components scanSectionComponents(section) returns: the container
\* entry, then the entry of each reported descendant.
ComponentsOf(d) ==
    [i \in DOMAIN scanSectionComponents(d) |->
        IF scanSectionComponents(d)[i].isSection
        THEN SectionComponent(d)
        ELSE Component(d, scanSectionComponents(d)[i].el)]

\* The fields of an entry, in the order they are computed.
EntryFields ==
    <<"element", "className", "textColor", "textVar", "bgColor", "bgVar",
      "borderColor", "fileHint", "imgSrc">>

\* A line of the export: the field it prints and the printed text.
Line(field, v) == [field |-> field, text |-> StringOf(v)]

\* if (comp.x) text += ...: the line is written for a truthy value only.
LineIf(field, v) == IF Truthy(v) THEN <<Line(field, v)>> ELSE <<>>

\* The block copyToClipboard(modal) writes for one component: the '#n
\* element (.className)' line, then the labelled lines.
BlockOf(comp) ==
    <<Line("element", comp.element), Line("className", comp.className),
      Line("textColor", comp.textColor), Line("bgColor", comp.bgColor)>>
    \o LineIf("borderColor", comp.borderColor)
    \o LineIf("imgSrc", comp.imgSrc)
    \o <<Line("fileHint", comp.fileHint)>>

\* The text copyToClipboard(modal) builds: the banner (title with the
\* section type, theme mode, rule) and one block per stored component.
BuildText(data, theme) ==
    [header |-> <<[label |-> "SECTION COMPONENT DEBUG", text |-> data.sectionType],
                  [label |-> "Theme Mode", text |-> theme]>>,
     blocks |-> [i \in DOMAIN data.components |-> BlockOf(data.components[i])]]

NoData == [open |-> FALSE, components |-> <<>>, sectionType |-> <<>>,
           panelTheme |-> <<>>]

NoText == [copied |-> FALSE, header |-> <<>>, blocks |-> <<>>,
           components |-> <<>>, scanTheme |-> <<>>]

\* Descendants of an exported section: a card heading with or without a
\* border and var() colours in its inline style, an image with or without
\* a source.
ExportElems ==
    [tag : {"H2"}, classes : {<< <<"card">> >>}, hidden : {FALSE},
     color : {OpaqueText}, backgroundColor : {TransparentBlack},
     borderColor : {TransparentBlack, OpaqueText},
     inlineColorVar : {Null, Str(<<"--color-foreground">>)},
     inlineBgVar : {Null, Str(<<"--color-background">>)},
     src : {""}, parent : {0}]
    \cup
    [tag : {"IMG"}, classes : {<<>>}, hidden : {FALSE},
     color : {OpaqueText}, backgroundColor : {TransparentBlack},
     borderColor : {TransparentBlack},
     inlineColorVar : {Null}, inlineBgVar : {Null},
     src : {"", "a.png"}, parent : {0}]

ExportDocs ==
    [classes : {<<ShopifySection>>}, sectionType : {"testimonials"},
     color : {OpaqueText}, backgroundColor : {TransparentBlack},
     els : UNION {[1..n -> ExportElems] : n \in 1..MaxEntries}]

ExportIdle ==
    /\ modalData = NoData
    /\ exportText = NoText

\* A page whose theme has been initialised, in either mode.
ExportInit ==
    /\ doc \in ExportDocs
    /\ report = <<>>
    /\ ExportIdle
    /\ themeScript = "switch"
    /\ themePhase = "ready"
    /\ dataTheme \in {Str(THEME_LIGHT), Str(THEME_DARK)}
    /\ storedTheme = dataTheme
    /\ systemDark = FALSE
    /\ htmlReady = FALSE
    /\ themeEvent = NoEvent
    /\ userChose = TRUE

\* showModal(section): the section is scanned, the panel shows the theme
\* read at that moment, and the components and the section type are
\* stored in the modal's dataset (JSON keeps strings and null as they are).
ShowExportModal ==
    /\ modalData' = [open |-> TRUE,
                     components |-> ComponentsOf(doc),
                     sectionType |-> <<doc.sectionType>>,
                     panelTheme |-> getTheme(dataTheme)]
    /\ report' = scanSectionComponents(doc)
    /\ UNCHANGED <<doc, exportText>>

\* copyToClipboard(modal): the Copy All button of the open panel; the
\* theme is read from the root element when the text is built.
CopyAll ==
    /\ modalData.open
    /\ exportText' = [copied |-> TRUE,
                      header |-> BuildText(modalData, getTheme(dataTheme)).header,
                      blocks |-> BuildText(modalData, getTheme(dataTheme)).blocks,
                      components |-> modalData.components,
                      scanTheme |-> modalData.panelTheme]
    /\ UNCHANGED <<doc, report, modalData>>


(***************************************************************************)
(* A section scan in which an element throws                              *)
(***************************************************************************)

\* No element throws.
NoFault == [el |-> 0, stage |-> "closest", sels |-> {}]

\* The callback reaches seen.add(className); seen.add(el) for the element:
\* none of its early returns is taken.
ReachesAdd(d, e, st) == ProcessElement(d, e, st).seenEls # st.seenEls

\* The callback throws on the faulty element: at el.closest() on every
\* visit of it that is not cut short by seen.has(el), or at
\* getComputedStyle(el), which is behind the early returns and seen.add.
Throws(d, e, st, f) ==
    /\ e = f.el
    /\ IF f.stage = "closest" THEN e \notin st.seenEls ELSE ReachesAdd(d, e, st)

\* The seen set when the callback has thrown: a throw at getComputedStyle
\* comes after the class name and the element were added.
AfterThrow(d, e, st, f) ==
    IF f.stage = "closest" THEN st
    ELSE [st EXCEPT !.seenEls = ProcessElement(d, e, st).seenEls,
                    !.seenClasses = ProcessElement(d, e, st).seenClasses]

\* catch (e) around the whole selectors.forEach: nothing after a throw runs.
SkippedByAny(skip, k) == skip # 0

\* try { ... } catch (e) { } inside the selectors.forEach callback: a throw
\* ends the inner forEach of that selector only.
SkippedBy(skip, k) == skip = k

\* The scan over the first n visits with a faulty element; skip is the
\* selector whose callback was left by the last throw, thrown the selectors
\* under which a throw happened.
RECURSIVE ScanThrowing(_, _, _, _)
ScanThrowing(d, visits, n, f) ==
    IF n = 0 THEN [st |-> ScanVisits(d, visits, 0), skip |-> 0, thrown |-> {}]
    ELSE LET prev == ScanThrowing(d, visits, n - 1, f)
             v == visits[n]
         IN  IF SkippedBy(prev.skip, v.k) THEN prev
             ELSE IF Throws(d, v.e, prev.st, f)
             THEN [st |-> AfterThrow(d, v.e, prev.st, f), skip |-> v.k,
                   thrown |-> prev.thrown \cup {v.k}]
             ELSE [st |-> ProcessElement(d, v.e, prev.st), skip |-> prev.skip,
                   thrown |-> prev.thrown]

\* Visible descendants directly under the section.
FaultElems == {x \in ScanElementsAt({0}) : ~x.hidden /\ x.src = ""}

FaultDocs ==
    [classes : {<<ShopifySection>>}, sectionType : {"testimonials"},
     color : {OpaqueText}, backgroundColor : {TransparentBlack},
     els : [1..MaxElems -> FaultElems]]

FaultIdle == fault = NoFault

FaultInit ==
    /\ doc \in FaultDocs
    /\ report = <<>>
    /\ fault \in [el : 0..MaxElems, stage : {"closest", "styles"}, sels : {{}}]

\* scanSectionComponents(section) on a section with a faulty element.
ScanFaulty ==
    /\ report = <<>>
    /\ report' = ScanThrowing(doc, QueryOrder(doc), Len(QueryOrder(doc)), fault).st.components
    /\ fault' = [fault EXCEPT
                    !.sels = ScanThrowing(doc, QueryOrder(doc), Len(QueryOrder(doc)), fault).thrown]
    /\ UNCHANGED doc


(***************************************************************************)
(* Stylesheet passes of the whole-page tool                               *)
(***************************************************************************)

\* Largest number of stylesheets of the document.
MaxSheets == 3

\* Only the try/catch around the whole loop: a sheet whose cssRules throws
\* ends the loop.
EndsLoopAlways(sheet) == ~sheet.readable

\* try { for (const rule of sheet.cssRules ...) } catch (e) { } inside the
\* loop over document.styleSheets: a throw never ends the loop.
EndsLoop(sheet) == FALSE

\* for (const sheet of document.styleSheets) of scanThemeVariables over the
\* first n sheets: the custom properties added to allVars.
RECURSIVE CollectVars(_, _)
CollectVars(ss, n) ==
    IF n = 0 THEN [allVars |-> {}, ended |-> FALSE]
    ELSE LET prev == CollectVars(ss, n - 1)
         IN  IF prev.ended THEN prev
             ELSE IF ~ss[n].readable
             THEN [prev EXCEPT !.ended = EndsLoop(ss[n])]
             ELSE [prev EXCEPT !.allVars = prev.allVars \cup ss[n].vars]

\* scanThemeVariables(): the names of the variables returned (each custom
\* property declared in a sheet resolves to a value on the root element).
scanThemeVariables(ss) == CollectVars(ss, Len(ss)).allVars

\* The loop of scanConflicts over the first n sheets for one element and
\* one colour property: usesVariable, and break once it is set.
RECURSIVE UsesVariable(_, _)
UsesVariable(ss, n) ==
    IF n = 0 THEN [usesVariable |-> FALSE, ended |-> FALSE]
    ELSE LET prev == UsesVariable(ss, n - 1)
         IN  IF prev.ended \/ prev.usesVariable THEN prev
             ELSE IF ~ss[n].readable
             THEN [prev EXCEPT !.ended = EndsLoop(ss[n])]
             ELSE [prev EXCEPT !.usesVariable = ss[n].usesVar]

\* scanConflicts() for an element with a text colour off the theme: the
\* 'hardcoded-color' conflict is pushed unless a matching rule uses var().
scanConflicts(ss) ==
    IF UsesVariable(ss, Len(ss)).usesVariable THEN {} ELSE {"hardcoded-color"}

\* A stylesheet: whether its cssRules can be read, the custom properties
\* its rules declare, and whether a rule matching the element sets the
\* colour through var().
Sheets ==
    [readable : BOOLEAN,
     vars : {{}, {"--color-bg"}, {"--font-body"}},
     usesVar : BOOLEAN]

NoSheetScan ==
    [variablesDone |-> FALSE, variables |-> {}, conflictsDone |-> FALSE,
     conflicts |-> {}]

SheetIdle ==
    /\ sheets = <<>>
    /\ sheetScan = NoSheetScan

SheetInit ==
    /\ sheets \in UNION {[1..n -> Sheets] : n \in 0..MaxSheets}
    /\ sheetScan = NoSheetScan

\* StyleDebug.scanVariables()
ScanVariables ==
    /\ ~sheetScan.variablesDone
    /\ sheetScan' = [sheetScan EXCEPT !.variablesDone = TRUE,
                                      !.variables = scanThemeVariables(sheets)]
    /\ UNCHANGED sheets

\* StyleDebug.scanConflicts()
ScanConflicts ==
    /\ ~sheetScan.conflictsDone
    /\ sheetScan' = [sheetScan EXCEPT !.conflictsDone = TRUE,
                                      !.conflicts = scanConflicts(sheets)]
    /\ UNCHANGED sheets


(***************************************************************************)
(* Element picker of the whole-page tool                                  *)
(***************************************************************************)

\* Number of page elements the pointer can be over.
MaxTargets == 4

\* Number of pending enableInspector timers.
MaxPending == 3

\* Page elements; the first is an SVG element, whose className is not a
\* string.
PageTargets == 1..MaxTargets

IsSvg(t) == t = 1

\* Event targets: a page element, or a node inside the modal or inside the
\* picker's overlay.
EventTargets ==
    [kind : {"page"}, el : PageTargets]
        \cup {[kind |-> "modal", el |-> 0], [kind |-> "overlay", el |-> 0]}

\* Neither e.target.closest('#style-debug-modal') nor
\* e.target.closest('#style-inspector-overlay') finds anything.
InPage(t) == t.kind = "page"

\* let inspectorMode = false; let inspectorOverlay = null; nothing is
\* registered, no modal exists and no timer is pending.
PickerInit ==
    inspector = [mode |-> FALSE, overlayRef |-> FALSE, overlays |-> 0,
                 cursor |-> "", mouseover |-> 0, click |-> 0, keydown |-> 0,
                 highlighted |-> {}, tooltip |-> 0, details |-> 0,
                 modalExists |-> FALSE, pending |-> 0]

\* document.addEventListener(type, listener): a listener already in the
\* list is not added again.
AddListener(n) == IF n = 0 THEN 1 ELSE n

\* enableInspector() without its first line.
enableInspectorUnguarded(p) ==
    [p EXCEPT !.mode = TRUE,
              !.overlayRef = TRUE,
              !.overlays = p.overlays + 1,
              !.cursor = "crosshair",
              !.mouseover = AddListener(p.mouseover),
              !.click = AddListener(p.click),
              !.keydown = AddListener(p.keydown)]

\* enableInspector()
enableInspector(p) ==
    IF p.mode THEN p
    ELSE [p EXCEPT !.mode = TRUE,
                   !.overlayRef = TRUE,
                   !.overlays = p.overlays + 1,
                   !.cursor = "crosshair",
                   !.mouseover = AddListener(p.mouseover),
                   !.click = AddListener(p.click),
                   !.keydown = AddListener(p.keydown)]

\* disableInspector()
disableInspector(p) ==
    IF ~p.mode THEN p
    ELSE [p EXCEPT !.mode = FALSE,
                   !.overlayRef = FALSE,
                   !.overlays = IF p.overlayRef THEN p.overlays - 1 ELSE p.overlays,
                   !.tooltip = IF p.overlayRef THEN 0 ELSE p.tooltip,
                   !.cursor = "",
                   !.highlighted = {},
                   !.mouseover = 0,
                   !.click = 0,
                   !.keydown = 0]

\* showElementDetails(el): returns without a modal; throws on an element
\* whose className has no split(); otherwise fills the inspector panel.
DetailsThrow(p, t) == p.modalExists /\ IsSvg(t)

showElementDetails(p, t) == IF p.modalExists THEN [p EXCEPT !.details = t] ELSE p

\* StyleDebug.show(): the modal exists from then on.
ShowPickerModal ==
    /\ ~inspector.modalExists
    /\ inspector' = [inspector EXCEPT !.modalExists = TRUE]

\* Click on Start Inspector in the modal: setTimeout(enableInspector, 100).
StartInspectorClick ==
    /\ inspector.modalExists
    /\ inspector.pending < MaxPending
    /\ inspector' = [inspector EXCEPT !.pending = inspector.pending + 1]

\* The timer of Start Inspector fires.
EnableTimerFires ==
    /\ inspector.pending > 0
    /\ inspector' = enableInspector([inspector EXCEPT !.pending = inspector.pending - 1])

\* StyleDebug.inspect()
InspectCall == inspector' = enableInspector(inspector)

\* StyleDebug.stopInspect()
StopInspectCall == inspector' = disableInspector(inspector)

\* A mouseover on document: inspectorMouseOver runs if it is registered.
Hover(t) ==
    /\ t.kind = "modal" => inspector.modalExists
    /\ t.kind = "overlay" => inspector.overlays > 0
    /\ inspector' =
         IF inspector.mouseover = 0 \/ ~inspector.mode \/ ~InPage(t)
         THEN inspector
         ELSE [inspector EXCEPT !.highlighted = {t.el}, !.tooltip = t.el]

\* A click on document: inspectorClick runs if it is registered; a throw of
\* showElementDetails leaves the handler before disableInspector().
ClickTarget(t) ==
    /\ t.kind = "modal" => inspector.modalExists
    /\ t.kind = "overlay" => inspector.overlays > 0
    /\ inspector' =
         IF inspector.click = 0 \/ ~inspector.mode \/ ~InPage(t)
         THEN inspector
         ELSE IF DetailsThrow(inspector, t.el) THEN inspector
         ELSE disableInspector(showElementDetails(inspector, t.el))

\* An Escape keydown on document: inspectorKeyDown runs if it is registered.
PickerEscape ==
    inspector' = IF inspector.keydown = 0 THEN inspector
                 ELSE disableInspector(inspector)


(***************************************************************************)
(* Specifications                                                         *)
(***************************************************************************)

InstrIdle ==
    /\ buttons = [s \in Sections |-> 0]
    /\ inlinePosition = [s \in Sections |-> ""]
    /\ cssPosition = [s \in Sections |-> "static"]
    /\ initCalls = 0
    /\ sectionLoads = 0

ColorIdle ==
    /\ computed = NoStyle
    /\ factColors = <<>>
    /\ wideHex = <<>>

HintIdle ==
    /\ hintIn = [kind |-> "section", tag |-> "DIV", classes |-> <<>>,
                 sectionType |-> ""]
    /\ hintOut = HintPending

ScanIdle ==
    /\ doc = [classes |-> <<>>, sectionType |-> "", color |-> MissingColor,
              backgroundColor |-> MissingColor, els |-> <<>>]
    /\ report = <<>>

TypeIdle ==
    /\ container = [attr |-> <<>>, inner |-> <<>>,
                    id |-> [prefixed |-> FALSE, template |-> FALSE, rest |-> <<>>],
                    classes |-> <<>>]
    /\ derived = NothingDerived

StyleIdle ==
    /\ page = [theme |-> "light", els |-> <<>>]
    /\ tables = <<>>

\* The subsystems added to the page model, at rest.
\* The subsystems modelled last, at rest.
LateIdle ==
    ReportIdle /\ ThemeIdle /\ ExportIdle /\ FaultIdle /\ SheetIdle /\ PickerInit

RestIdle == PanelInit /\ TypeIdle /\ StyleIdle /\ LateIdle

\* Page instrumentation: init() and section-load notifications.
Init == InstrInit /\ CopyInit /\ ColorIdle /\ HintIdle /\ ScanIdle /\ RestIdle

Next ==
    \/ InitCall /\ UNCHANGED <<copyVars, colorVars, hintVars, scanVars, restVars>>
    \/ \E t \in Targets :
         SectionLoad(t) /\ UNCHANGED <<copyVars, colorVars, hintVars, scanVars, restVars>>

Spec == Init /\ [][Next]_vars

\* Copy operations of the three tools, their promises and timers.
CopySpecInit == InstrIdle /\ CopyInit /\ ColorIdle /\ HintIdle /\ ScanIdle /\ RestIdle

CopyNext ==
    \/ \E api \in ApiStates :
         StyleCopyClick(api) /\ UNCHANGED <<instrVars, colorVars, hintVars, scanVars, restVars>>
    \/ \E i \in 1..MaxInFlight :
         StyleCopySettle(i) /\ UNCHANGED <<instrVars, colorVars, hintVars, scanVars, restVars>>
    \/ \E api \in ApiStates :
         ModalCopyClick(api) /\ UNCHANGED <<instrVars, colorVars, hintVars, scanVars, restVars>>
    \/ \E i \in 1..MaxInFlight :
         ModalCopySettle(i) /\ UNCHANGED <<instrVars, colorVars, hintVars, scanVars, restVars>>
    \/ \E api \in ApiStates :
         InfoCopyCall(api) /\ UNCHANGED <<instrVars, colorVars, hintVars, scanVars, restVars>>
    \/ \E i \in 1..MaxInFlight :
         InfoCopySettle(i) /\ UNCHANGED <<instrVars, colorVars, hintVars, scanVars, restVars>>
    \/ \E i \in 1..MaxInFlight :
         TimerFire(i) /\ UNCHANGED <<instrVars, colorVars, hintVars, scanVars, restVars>>

SpecCopy == CopySpecInit /\ [][CopyNext]_vars

\* Colour normalisation applied to one element's computed style.
ColorSpecInit == InstrIdle /\ CopyInit /\ ColorInit /\ HintIdle /\ ScanIdle /\ RestIdle

ColorNext ==
    \/ ExtractColors /\ UNCHANGED <<instrVars, copyVars, hintVars, scanVars, restVars>>
    \/ NormalizeWide /\ UNCHANGED <<instrVars, copyVars, hintVars, scanVars, restVars>>

SpecColor == ColorSpecInit /\ [][ColorNext]_vars

\* File-hint resolution for one container or element.
HintSpecInit == InstrIdle /\ CopyInit /\ ColorIdle /\ HintInit /\ ScanIdle /\ RestIdle

HintNext ==
    \/ ResolveSectionHint /\ UNCHANGED <<instrVars, copyVars, colorVars, scanVars, restVars>>
    \/ ResolveElementHint /\ UNCHANGED <<instrVars, copyVars, colorVars, scanVars, restVars>>

SpecHint == HintSpecInit /\ [][HintNext]_vars

\* One scan of one section.
ScanSpecInit == InstrIdle /\ CopyInit /\ ColorIdle /\ HintIdle /\ ScanInit /\ RestIdle

ScanNext == ScanSection /\ UNCHANGED <<instrVars, copyVars, colorVars, hintVars, restVars>>

SpecScan == ScanSpecInit /\ [][ScanNext]_vars

\* The panels of the two tools and the toast of the copy-button version.
PanelSpecInit ==
    InstrIdle /\ CopyInit /\ ColorIdle /\ HintIdle /\ ScanIdle
    /\ PanelInit /\ TypeIdle /\ StyleIdle /\ LateIdle

PanelNext ==
    \/ InspectSection /\ UNCHANGED <<baseVars, typeVars, styleVars, lateVars>>
    \/ \E via \in {"sectionOverlay", "sectionClose", "sectionHide"} :
         SectionDismiss(via) /\ UNCHANGED <<baseVars, typeVars, styleVars, lateVars>>
    \/ StyleShow /\ UNCHANGED <<baseVars, typeVars, styleVars, lateVars>>
    \/ \E via \in {"styleOverlay", "styleClose", "styleHide"} :
         StyleDismiss(via) /\ UNCHANGED <<baseVars, typeVars, styleVars, lateVars>>
    \/ StyleToggle /\ UNCHANGED <<baseVars, typeVars, styleVars, lateVars>>
    \/ StyleRescan /\ UNCHANGED <<baseVars, typeVars, styleVars, lateVars>>
    \/ StyleInspect /\ UNCHANGED <<baseVars, typeVars, styleVars, lateVars>>
    \/ EscapeKey /\ UNCHANGED <<baseVars, typeVars, styleVars, lateVars>>
    \/ CopyShowsToast /\ UNCHANGED <<baseVars, typeVars, styleVars, lateVars>>

SpecPanel == PanelSpecInit /\ [][PanelNext]_vars

\* The type of one section container and its outputs.
TypeSpecInit ==
    InstrIdle /\ CopyInit /\ ColorIdle /\ HintIdle /\ ScanIdle
    /\ PanelInit /\ TypeInit /\ StyleIdle /\ LateIdle

TypeNext ==
    \/ GetInfo /\ UNCHANGED <<baseVars, panelVars, styleVars, lateVars>>
    \/ ShowSectionType /\ UNCHANGED <<baseVars, panelVars, styleVars, lateVars>>
    \/ CopyHeader /\ UNCHANGED <<baseVars, panelVars, styleVars, lateVars>>

SpecType == TypeSpecInit /\ [][TypeNext]_vars

\* One whole-page scan of one page.
StyleSpecInit ==
    InstrIdle /\ CopyInit /\ ColorIdle /\ HintIdle /\ ScanIdle
    /\ PanelInit /\ TypeIdle /\ StyleInit /\ LateIdle

StyleNext == ScanStyles /\ UNCHANGED <<baseVars, panelVars, typeVars, lateVars>>

SpecStyle == StyleSpecInit /\ [][StyleNext]_vars

\* Repeated scans of a page and a section that change in between.
ReportSpecInit ==
    InstrIdle /\ CopyInit /\ ColorIdle /\ HintIdle
    /\ PanelInit /\ TypeIdle /\ ReportInit /\ ThemeIdle /\ ExportIdle /\ FaultIdle
    /\ SheetIdle /\ PickerInit

ReportNext ==
    \/ EditPage /\ UNCHANGED <<instrVars, copyVars, colorVars, hintVars, panelVars, typeVars, themeVars, exportVars, faultVars, sheetVars, pickerVars>>
    \/ EditSection /\ UNCHANGED <<instrVars, copyVars, colorVars, hintVars, panelVars, typeVars, themeVars, exportVars, faultVars, sheetVars, pickerVars>>
    \/ ScanStylesCall /\ UNCHANGED <<instrVars, copyVars, colorVars, hintVars, panelVars, typeVars, themeVars, exportVars, faultVars, sheetVars, pickerVars>>
    \/ ScanComponentsCall /\ UNCHANGED <<instrVars, copyVars, colorVars, hintVars, panelVars, typeVars, themeVars, exportVars, faultVars, sheetVars, pickerVars>>

SpecReport == ReportSpecInit /\ [][ReportNext]_vars

\* The theme toggle from the evaluation of its script on.
ThemeSpecInit ==
    InstrIdle /\ CopyInit /\ ColorIdle /\ HintIdle /\ ScanIdle
    /\ PanelInit /\ TypeIdle /\ StyleIdle /\ ReportIdle /\ ThemeInit /\ ExportIdle
    /\ FaultIdle /\ SheetIdle /\ PickerInit

ThemeNext ==
    \/ InitTheme /\ UNCHANGED <<baseVars, panelVars, typeVars, styleVars, reportVars, exportVars, faultVars, sheetVars, pickerVars>>
    \/ MarkThemeReady /\ UNCHANGED <<baseVars, panelVars, typeVars, styleVars, reportVars, exportVars, faultVars, sheetVars, pickerVars>>
    \/ \E theme \in ThemeArgs :
         SetThemeCall(theme) /\ UNCHANGED <<baseVars, panelVars, typeVars, styleVars, reportVars, exportVars, faultVars, sheetVars, pickerVars>>
    \/ ToggleCall /\ UNCHANGED <<baseVars, panelVars, typeVars, styleVars, reportVars, exportVars, faultVars, sheetVars, pickerVars>>
    \/ ToggleClick /\ UNCHANGED <<baseVars, panelVars, typeVars, styleVars, reportVars, exportVars, faultVars, sheetVars, pickerVars>>
    \/ \E value \in {Null} \cup {Str(t) : t \in ThemeArgs} :
         ButtonClick(value) /\ UNCHANGED <<baseVars, panelVars, typeVars, styleVars, reportVars, exportVars, faultVars, sheetVars, pickerVars>>
    \/ SystemChange /\ UNCHANGED <<baseVars, panelVars, typeVars, styleVars, reportVars, exportVars, faultVars, sheetVars, pickerVars>>

SpecTheme == ThemeSpecInit /\ [][ThemeNext]_vars

\* The per-section panel opened and exported while the theme is toggled.
ExportSpecInit ==
    InstrIdle /\ CopyInit /\ ColorIdle /\ HintIdle
    /\ PanelInit /\ TypeIdle /\ StyleIdle /\ ReportIdle /\ ExportInit /\ FaultIdle
    /\ SheetIdle /\ PickerInit

ExportNext ==
    \/ ShowExportModal
         /\ UNCHANGED <<instrVars, copyVars, colorVars, hintVars, panelVars, typeVars,
                        styleVars, reportVars, themeVars, faultVars, sheetVars, pickerVars>>
    \/ CopyAll
         /\ UNCHANGED <<instrVars, copyVars, colorVars, hintVars, panelVars, typeVars,
                        styleVars, reportVars, themeVars, faultVars, sheetVars, pickerVars>>
    \/ ToggleClick
         /\ UNCHANGED <<instrVars, copyVars, colorVars, hintVars, scanVars, panelVars,
                        typeVars, styleVars, reportVars, exportVars, faultVars, sheetVars, pickerVars>>

SpecExport == ExportSpecInit /\ [][ExportNext]_vars

\* One scan of one section in which one element may throw.
FaultSpecInit ==
    InstrIdle /\ CopyInit /\ ColorIdle /\ HintIdle
    /\ PanelInit /\ TypeIdle /\ StyleIdle /\ ReportIdle /\ ThemeIdle /\ ExportIdle
    /\ FaultInit /\ SheetIdle /\ PickerInit

FaultNext ==
    ScanFaulty
    /\ UNCHANGED <<instrVars, copyVars, colorVars, hintVars, panelVars, typeVars,
                   styleVars, reportVars, themeVars, exportVars, sheetVars, pickerVars>>

SpecFault == FaultSpecInit /\ [][FaultNext]_vars

\* The two stylesheet passes over one list of stylesheets.
SheetSpecInit ==
    InstrIdle /\ CopyInit /\ ColorIdle /\ HintIdle /\ ScanIdle
    /\ PanelInit /\ TypeIdle /\ StyleIdle /\ ReportIdle /\ ThemeIdle /\ ExportIdle
    /\ FaultIdle /\ SheetInit /\ PickerInit

SheetNext ==
    \/ ScanVariables
         /\ UNCHANGED <<baseVars, panelVars, typeVars, styleVars, reportVars, themeVars,
                        exportVars, faultVars, pickerVars>>
    \/ ScanConflicts
         /\ UNCHANGED <<baseVars, panelVars, typeVars, styleVars, reportVars, themeVars,
                        exportVars, faultVars, pickerVars>>

SpecSheet == SheetSpecInit /\ [][SheetNext]_vars


\* The element picker driven by the public calls, the Start Inspector
\* button and pointer and keyboard events.
PickerSpecInit ==
    InstrIdle /\ CopyInit /\ ColorIdle /\ HintIdle /\ ScanIdle
    /\ PanelInit /\ TypeIdle /\ StyleIdle /\ ReportIdle /\ ThemeIdle /\ ExportIdle
    /\ FaultIdle /\ SheetIdle /\ PickerInit

PickerStep ==
    \/ ShowPickerModal
    \/ StartInspectorClick
    \/ EnableTimerFires
    \/ InspectCall
    \/ StopInspectCall
    \/ \E t \in EventTargets : Hover(t)
    \/ \E t \in EventTargets : ClickTarget(t)
    \/ PickerEscape

PickerNext ==
    PickerStep
    /\ UNCHANGED <<baseVars, panelVars, typeVars, styleVars, reportVars, themeVars,
                   exportVars, faultVars, sheetVars>>

SpecPicker == PickerSpecInit /\ [][PickerNext]_vars


(***************************************************************************)
(* Properties                                                             *)
(***************************************************************************)

\* C1: init() called twice on a page nothing else has touched leaves exactly
\* one inspect control in every section container: the second call adds no
\* control to a container that already has one.
C1_InitTwiceOneControl ==
    (sectionLoads = 0 /\ initCalls >= 2) => \A s \in Sections : buttons[s] = 1

C1_Witness ==
    sectionLoads = 0 /\ initCalls = 2 /\ \A s \in Sections : buttons[s] = 1

\* C2: after any sequence of init() calls and section-load notifications
\* every section container holds at most one inspect control.
C2_AtMostOneControl == \A s \in Sections : buttons[s] <= 1

\* The element at position e of the scanned section has an entry.
Reported(e) == \E i \in DOMAIN report : report[i].el = e

\* The inclusion rule applied to an element on its own: it matches a
\* structural selector, has a layout box or is media, and has a
\* non-transparent text or background colour or is media.
Includable(e) ==
    /\ \E k \in DOMAIN Selectors : Matches(doc.els[e], Selectors[k])
    /\ ~doc.els[e].hidden \/ IsMediaElement(doc.els, e)
    /\ \/ ~IsTransparentBlack(doc.els[e].color)
       \/ ~IsTransparentBlack(doc.els[e].backgroundColor)
       \/ IsMediaElement(doc.els, e)

SharedClass(e1, e2) ==
    /\ getPrimaryClass(doc.els[e1].classes) # <<>>
    /\ getPrimaryClass(doc.els[e1].classes) = getPrimaryClass(doc.els[e2].classes)

\* C3: within one scan, of two non-image elements sharing a primary class
\* (at least one of them reportable, the class carried by no image) exactly
\* one is in the report; two images with different source URLs are both in
\* the report.
C3_DedupExactlyOne ==
    report # <<>> =>
        \A e1, e2 \in DOMAIN doc.els :
            /\ ( /\ e1 < e2
                 /\ doc.els[e1].tag # "IMG" /\ doc.els[e2].tag # "IMG"
                 /\ SharedClass(e1, e2)
                 /\ Includable(e1) \/ Includable(e2)
                 /\ \A e \in DOMAIN doc.els :
                        doc.els[e].tag = "IMG" => ~SharedClass(e, e1) )
               => (Reported(e1) /\ ~Reported(e2)) \/ (~Reported(e1) /\ Reported(e2))
            /\ ( /\ doc.els[e1].tag = "IMG" /\ doc.els[e2].tag = "IMG"
                 /\ doc.els[e1].src # doc.els[e2].src )
               => Reported(e1) /\ Reported(e2)

\* C4: no copy operation throws or leaves an unhandled rejection, and each
\* reports success or failure to its caller as a boolean.
C4_CopyNeverThrows ==
    lastCopy.tool # "none" =>
        lastCopy.outcome = "ok" /\ lastCopy.returned \in {"true", "false"}

\* C5: a rejected clipboard write followed by a successful copy command is
\* reported as success; a failed fallback (copy command false or throwing)
\* shows the failed state, never the copied state.
C5_OutcomeShownMatches ==
    lastCopy.tool \in {"modal", "style"} =>
        /\ (lastCopy.api = "rejects" /\ lastCopy.exec = "true")
              => lastCopy.shown = "copied"
        /\ lastCopy.exec \in {"false", "throws"} => lastCopy.shown = "failed"

\* C6: once every pending clipboard write has settled and every feedback
\* timer has fired, the Copy All buttons show their original content with
\* no success or failure styling.
C6_FeedbackTransient ==
    (pendingWrites = <<>> /\ timers = <<>>) =>
        modalCopyBtn = ModalBtnOriginal /\ styleCopyBtn = StyleBtnOriginal

\* The input represents full transparency.
FullyTransparent(c) ==
    c.kind \in {"missing", "keyword"} \/ (c.kind = "rgba" /\ c.a = "0")

\* C7: the per-section normalisation returns exactly 'transparent' for
\* every fully transparent input: alpha 0 with any channels, the keyword,
\* an empty or missing value.
C7_FullTransparencyNormalized ==
    factColors # <<>> =>
        /\ FullyTransparent(computed.color)
              => factColors[1].textColor = Transparent
        /\ FullyTransparent(computed.backgroundColor)
              => factColors[1].bgColor = Transparent

\* '#' followed by six uppercase hexadecimal digits.
IsHexColor(str) ==
    /\ Len(str) = 7
    /\ str[1] = "#"
    /\ \A i \in 2..7 : \E k \in DOMAIN UpperDigits : UpperDigits[k] = str[i]

\* C8: every colour stored in an ElementFact is '#RRGGBB' in uppercase or
\* 'transparent' (the border colour may be absent).
C8_FactColorsNormalized ==
    factColors # <<>> =>
        /\ IsHexColor(factColors[1].textColor) \/ factColors[1].textColor = Transparent
        /\ IsHexColor(factColors[1].bgColor) \/ factColors[1].bgColor = Transparent
        /\ \/ factColors[1].borderColor = <<>>
           \/ IsHexColor(factColors[1].borderColor)
           \/ factColors[1].borderColor = Transparent

\* Value of an uppercase hexadecimal digit.
HexValue(ch) == (CHOOSE k \in DOMAIN UpperDigits : UpperDigits[k] = ch) - 1

\* str is '#RRGGBB' and its pairs read back as the channels of c.
EncodesChannels(str, c) ==
    /\ IsHexColor(str)
    /\ 16 * HexValue(str[2]) + HexValue(str[3]) = c.r
    /\ 16 * HexValue(str[4]) + HexValue(str[5]) = c.g
    /\ 16 * HexValue(str[6]) + HexValue(str[7]) = c.b

\* C9: for every opaque rgb(r, g, b) with channels in 0..255 both
\* normalisations return '#RRGGBB', the pairs being the two-digit uppercase
\* hexadecimal encodings of r, g and b in that order.
C9_OpaqueRgbEncoding ==
    computed.color.kind = "rgb" =>
        /\ factColors # <<>> => EncodesChannels(factColors[1].textColor, computed.color)
        /\ wideHex # <<>> => EncodesChannels(wideHex[1], computed.color)

C9_Witness ==
    /\ computed.color.kind = "rgb"
    /\ computed.color.r = 10 /\ computed.color.g = 255 /\ computed.color.b = 0
    /\ factColors # <<>> /\ factColors[1].textColor = <<"#", "0", "A", "F", "F", "0", "0">>
    /\ wideHex = << <<"#", "0", "A", "F", "F", "0", "0">> >>

\* The class name the hint of hintIn is resolved from.
HintClass ==
    IF hintIn.kind = "element"
    THEN ReportedClass(hintIn.tag, hintIn.classes)
    ELSE getPrimaryClass(hintIn.classes)

HintClassMatches(i) == StartsWith(HintClass, Patterns[i].prefix)

C11_SingletonPanels ==
    sectionModal.count <= 1 /\ styleModal.count <= 1 /\ toast.count <= 1

C11_Witness ==
    /\ lastOp.op = "inspect" /\ lastOp.sectionWasOpen
    /\ sectionModal.count = 1 /\ sectionModal.active
    /\ styleModal.count = 1
    /\ toast.count = 1

\* C12: an overlay click, a close-button click or an Escape key press made
\* while a panel is open leaves that panel closed and the body scroll lock
\* released, for the per-section panel and the whole-page panel alike.
C12_DismissalCloses ==
    /\ (lastOp.op \in {"sectionOverlay", "sectionClose", "escape"}
           /\ lastOp.sectionWasOpen)
          => (~sectionModal.active /\ bodyOverflow = "")
    /\ (lastOp.op \in {"styleOverlay", "styleClose", "escape"}
           /\ lastOp.styleWasOpen)
          => (~styleModal.active /\ bodyOverflow = "")

\* C13: a section-load notification for a section container leaves that
\* container with an inspect control and a positioning context, as init()
\* does, and changes no other container; a notification for any other
\* target changes nothing.
C13_SectionLoadInstruments ==
    [][\A t \in Targets :
          SectionLoad(t) =>
              IF t \in Sections
              THEN /\ buttons'[t] > 0
                   /\ (IF inlinePosition'[t] # "" THEN inlinePosition'[t]
                        ELSE cssPosition'[t]) # "static"
                   /\ \A s \in Sections \ {t} :
                          /\ buttons'[s] = buttons[s]
                          /\ inlinePosition'[s] = inlinePosition[s]
              ELSE /\ buttons' = buttons
                   /\ inlinePosition' = inlinePosition]_vars

\* The sources of a section type in the claimed order, each empty when it
\* is not available: the container's attribute, the attribute of the first
\* descendant carrying one, the cleaned capture of the id, the first
\* 'section-*' class other than 'section-padding'.
TypeSources(c) ==
    << c.attr,
       IF c.inner # <<>> THEN Head(c.inner) ELSE <<>>,
       CleanIdType(IdCapture(c.id)),
       IF SectionTypeClasses(c.classes) # <<>>
       THEN WithoutSectionPrefix(Head(SectionTypeClasses(c.classes)))
       ELSE <<>> >>

\* The first available source, null when there is none.
FirstAvailable(sources) ==
    IF \A i \in DOMAIN sources : sources[i] = <<>> THEN Null
    ELSE Str(sources[CHOOSE i \in DOMAIN sources :
                        sources[i] # <<>> /\ \A j \in 1..(i - 1) : sources[j] = <<>>])

\* C14: the derived section type is the first available of the container's
\* type attribute, a descendant's type attribute, the type parsed from the
\* id and a 'section-*' class (not 'section-padding'); the class is used
\* whenever the id yields no type.
C14_FirstAvailableType ==
    derived.state # "none" \/ derived.infoType # <<>>
        => LET expected == FirstAvailable(TypeSources(container))
           IN  IF Truthy(expected)
               THEN derived.type = expected
               ELSE ~Truthy(derived.type)

\* C15: when no section type can be derived, every place the type is
\* output to shows the literal 'unknown': the debug-info object, the
\* section line of the panel and the header of the copied text export.
C15_UnknownEverywhere ==
    ~Truthy(getSectionType(container)) =>
        /\ derived.infoType # <<>> => derived.infoType = Unknown
        /\ derived.state \in {"shown", "copied"} => derived.panelLine = Unknown
        /\ derived.state = "copied" => derived.header = Unknown

\* The element matches at least one structural selector pattern.
MatchesSome(e) == \E k \in DOMAIN Selectors : Matches(doc.els[e], Selectors[k])

\* The element has a non-transparent text or background colour.
Styled(e) ==
    ~FullyTransparent(doc.els[e].color) \/ ~FullyTransparent(doc.els[e].backgroundColor)

\* No other element of the section carries the element's primary class.
OnlyOfItsClass(e) == \A o \in DOMAIN doc.els \ {e} : ~SharedClass(e, o)

\* C16: an element (with a layout box or media, the only one of its class)
\* is reported if it is an image or media element, or matches a structural
\* selector and has a non-transparent text or background colour, and only
\* then; a visible styled heading is reported even without a class.
C16_InclusionRule ==
    report # <<>> =>
        \A e \in DOMAIN doc.els :
            (OnlyOfItsClass(e) /\ (~doc.els[e].hidden \/ IsMediaElement(doc.els, e)))
            => /\ ( \/ doc.els[e].tag = "IMG"
                    \/ HasClass(doc.els[e], "media")
                    \/ (MatchesSome(e) /\ Styled(e)) ) => Reported(e)
               /\ Reported(e) =>
                     (IsMediaElement(doc.els, e) \/ (MatchesSome(e) /\ Styled(e)))

\* Number of entries of the report for the element.
EntriesOf(e) == Cardinality({i \in DOMAIN report : report[i].el = e})

\* C17: an element without a layout box is in the report only if it is
\* media (an IMG, an element of class 'media' or a descendant of one);
\* every IMG of the section has exactly one entry, hidden or not.
C17_HiddenOnlyMedia ==
    report # <<>> =>
        \A e \in DOMAIN doc.els :
            /\ (doc.els[e].hidden /\ ~IsMediaElement(doc.els, e)) => ~Reported(e)
            /\ doc.els[e].tag = "IMG" => EntriesOf(e) = 1

C17_Witness ==
    /\ report # <<>>
    /\ doc.els[1].tag = "DIV" /\ doc.els[1].hidden /\ doc.els[1].parent = 0
    /\ doc.els[1].classes = << <<"card">> >> /\ doc.els[1].color = OpaqueText
    /\ ~Reported(1)
    /\ doc.els[2].tag = "IMG" /\ doc.els[2].hidden
    /\ doc.els[2].classes = << <<"card">> >>
    /\ EntriesOf(2) = 1

\* The report holds one section-container entry, in first place.
SectionEntryFirst ==
    /\ report[1].isSection
    /\ \A i \in 2..Len(report) : ~report[i].isSection

\* C18 as claimed: one section-container entry first, then the reported
\* descendants in document order.
C18_DocumentOrder ==
    report # <<>> =>
        /\ SectionEntryFirst
        /\ \A i, j \in 2..Len(report) : i < j => report[i].el < report[j].el

\* Index of the first selector pattern the element matches.
FirstSelector(e) ==
    FirstOf({k \in DOMAIN Selectors : Matches(doc.els[e], Selectors[k])})

\* C18 amended: one section-container entry first, then the reported
\* descendants ordered by the first selector pattern each matches, in the
\* order of the pattern list, and in document order under one pattern.
C18_SelectorOrder ==
    report # <<>> =>
        /\ SectionEntryFirst
        /\ \A i, j \in 2..Len(report) :
              i < j =>
                \/ FirstSelector(report[i].el) < FirstSelector(report[j].el)
                \/ /\ FirstSelector(report[i].el) = FirstSelector(report[j].el)
                   /\ report[i].el < report[j].el

C18_Witness ==
    /\ Len(report) = 3
    /\ report[1].isSection
    /\ report[2].el = 2 /\ report[2].element = "H2"
    /\ report[3].el = 1 /\ report[3].element = "DIV"

\* Every value of the table appears once and has at most three examples.
DistinctAndCapped(table) ==
    /\ \A i, j \in DOMAIN table : table[i].value = table[j].value => i = j
    /\ \A i \in DOMAIN table : Len(table[i].elements) <= 3

\* C19: in every frequency table of the whole-page scan each distinct value
\* appears once and keeps at most 3 example selectors, however many
\* elements share the value.
C19_TablesCapped ==
    tables # <<>> =>
        /\ DistinctAndCapped(tables[1].fontFamily)
        /\ DistinctAndCapped(tables[1].fontSize)
        /\ DistinctAndCapped(tables[1].fontWeight)
        /\ DistinctAndCapped(tables[1].color)
        /\ DistinctAndCapped(tables[1].spacing)

\* The measure, in tenths, lies within 2 units of an entry of the scale.
WithinTwo(tenths) ==
    \E expected \in spacingValues : Abs(tenths - 10 * expected) <= 20

\* C20: a measured spacing value is marked consistent exactly when it lies
\* within 2 units of an entry of the allowed scale; a value more than 2
\* away from every entry, 34.4 say, is marked inconsistent.
C20_SpacingConsistency ==
    tables # <<>> =>
        \A e \in DOMAIN page.els :
            (~page.els[e].hidden /\ ~page.els[e].inModal) =>
                \A n \in DOMAIN page.els[e].spacing :
                    page.els[e].spacing[n].value > 0 =>
                        \E i \in DOMAIN tables[1].spacing :
                            /\ tables[1].spacing[i].value =
                                   Round(page.els[e].spacing[n].value)
                            /\ tables[1].spacing[i].isConsistent
                                   <=> WithinTwo(page.els[e].spacing[n].value)


\* C21: a report a scan has returned is never changed afterwards; a later
\* scan or rescan allocates a new report object.
C21_ReportsImmutable ==
    [][\A a \in DOMAIN heap : heap[a].returned => heap'[a] = heap[a]]_vars

\* Two scans of the styles returned different reports, both still held.
C21_Witness ==
    \E a, b \in DOMAIN heap :
        /\ a < b
        /\ heap[a].returned /\ heap[b].returned
        /\ heap[a].kind = "styles" /\ heap[b].kind = "styles"
        /\ heap[a].value # heap[b].value

\* C27: while no theme was chosen by hand, a change of the system colour
\* scheme switches the theme to match it; once a theme was chosen by hand,
\* a change of the system colour scheme leaves the theme alone.
C27_SystemFollowedUntilChosen ==
    [][(/\ themePhase = "ready"
        /\ ListensToSystem(themeScript)
        /\ systemDark' # systemDark)
       => IF userChose
          THEN dataTheme' = dataTheme
          ELSE dataTheme' = Str(IF systemDark' THEN THEME_DARK ELSE THEME_LIGHT)]_vars

\* C30 (as stated): once init() has run, the data-theme attribute equals
\* the stored 'theme-preference' and getTheme returns that value.
C30_ThemeMatchesStored ==
    themePhase = "ready" =>
        /\ dataTheme = storedTheme
        /\ ~storedTheme.isNull
        /\ getTheme(dataTheme) = storedTheme.str

\* C30 (amended): once init() has run, the data-theme attribute equals the
\* stored 'theme-preference'; getTheme returns that value unless it is the
\* empty string, for which getTheme returns 'light'.
C30_ThemeMatchesStoredNonEmpty ==
    themePhase = "ready" =>
        /\ dataTheme = storedTheme
        /\ ~storedTheme.isNull
        /\ getTheme(dataTheme) =
               IF storedTheme.str = <<>> THEN THEME_LIGHT ELSE storedTheme.str

\* After init() a theme other than the initial one was set by hand.
C30_Witness ==
    /\ themePhase = "ready"
    /\ userChose
    /\ storedTheme = Str(<<"sepia">>)
    /\ dataTheme = Str(<<"sepia">>)

\* C22: the theme mode in the header of an exported section report is the
\* mode that was active when the exported facts were scanned.
C22_ExportNamesScanTheme ==
    exportText.copied => exportText.header[2].text = exportText.scanTheme

\* Field f of component comp is reproduced by a line of the block.
Reproduced(comp, block, f) ==
    \E k \in DOMAIN block : block[k].field = f /\ block[k].text = comp[f].str

\* C23: the text export has one block per report entry, in report order,
\* reproducing every non-empty field of the entry, the CSS-variable
\* provenance fields included, under a header with a report title, the
\* theme mode and a generation timestamp.
C23_ExportReproducesEntries ==
    exportText.copied =>
        /\ Len(exportText.blocks) = Len(exportText.components)
        /\ \A i \in DOMAIN exportText.components :
              \A n \in DOMAIN EntryFields :
                  Truthy(exportText.components[i][EntryFields[n]])
                  => Reproduced(exportText.components[i], exportText.blocks[i],
                                EntryFields[n])
        /\ \E h \in DOMAIN exportText.header :
              exportText.header[h].label = "SECTION COMPONENT DEBUG"
        /\ \E h \in DOMAIN exportText.header :
              exportText.header[h].label = "Theme Mode"
        /\ \E h \in DOMAIN exportText.header :
              exportText.header[h].label = "Generated"

\* The selectors an element matches.
SelectorsOf(el) == {k \in DOMAIN Selectors : Matches(el, Selectors[k])}

\* An element the scan reports whenever its callback runs to the end: it
\* has a class name no other descendant shares, and a colour or an image.
SurelyReported(d, e) ==
    /\ ReportedClass(d.els[e].tag, d.els[e].classes) # <<>>
    /\ \A o \in DOMAIN d.els \ {e} :
          ReportedClass(d.els[o].tag, d.els[o].classes)
            # ReportedClass(d.els[e].tag, d.els[e].classes)
    /\ \/ rgbToHex(d.els[e].color) # Transparent
       \/ IsMediaElement(d.els, e)

\* The entries of the scan of the same section in which nothing throws.
Unfaulted(d) == scanSectionComponents(d)

\* C24: if one selector's processing throws during a section scan, only the
\* rest of that selector's work is skipped: the entries collected before
\* the throw stay in the report, every other selector is still processed,
\* and the scan returns its report.
C24_ThrowSkipsOneSelector ==
    (report # <<>> /\ fault.sels # {}) =>
        /\ report[1] = SectionFact(doc)
        /\ \A i \in DOMAIN Unfaulted(doc) :
              (/\ i > 1
               /\ \A k \in SelectorsOf(doc.els[Unfaulted(doc)[i].el]) :
                     \A t \in fault.sels : k < t
               /\ SurelyReported(doc, Unfaulted(doc)[i].el))
              => \E j \in DOMAIN report : report[j] = Unfaulted(doc)[i]
        /\ \A e \in DOMAIN doc.els :
              (/\ e # fault.el
               /\ SurelyReported(doc, e)
               /\ \E k \in SelectorsOf(doc.els[e]) : k \notin fault.sels)
              => \E j \in DOMAIN report : report[j].el = e

\* An element threw under a selector and an element first matched by a
\* later selector is in the report.
C24_Witness ==
    /\ report # <<>>
    /\ fault.sels # {}
    /\ \E j \in DOMAIN report :
          /\ report[j].el # 0
          /\ report[j].el # fault.el
          /\ \A k \in SelectorsOf(doc.els[report[j].el]) :
                \E t \in fault.sels : k > t

\* The stylesheets whose rules can be read.
ReadableSheets == {i \in DOMAIN sheets : sheets[i].readable}

\* C25: in the variable scan and the conflict scan a stylesheet whose rules
\* cannot be read is skipped and every remaining stylesheet is examined:
\* the variables are those of all readable sheets, and a colour counts as
\* hardcoded exactly when no readable sheet sets it through var().
C25_UnreadableSheetsSkipped ==
    /\ sheetScan.variablesDone =>
          sheetScan.variables = UNION {sheets[i].vars : i \in ReadableSheets}
    /\ sheetScan.conflictsDone =>
          (sheetScan.conflicts = {}
             <=> \E i \in ReadableSheets : sheets[i].usesVar)

\* Both passes ran over a list in which an unreadable sheet precedes a
\* readable one whose variable and var() rule were found.
C25_Witness ==
    /\ sheetScan.variablesDone /\ sheetScan.conflictsDone
    /\ \E i, j \in DOMAIN sheets :
          /\ i < j
          /\ ~sheets[i].readable
          /\ sheets[j].readable /\ sheets[j].usesVar
          /\ sheets[j].vars # {}
          /\ sheets[j].vars \subseteq sheetScan.variables
    /\ sheetScan.conflicts = {}

\* C28: with both tools loaded, the body scroll lock is engaged exactly
\* while at least one of the two debug modals is active; dismissing one
\* modal does not unlock scrolling while the other is still open.
C28_ScrollLockIffModalOpen ==
    (bodyOverflow = "hidden") <=> (sectionModal.active \/ styleModal.active)

\* C29: the textarea a fallback copy creates is always removed again: when
\* no copy operation is running, whatever the outcomes of the clipboard API
\* and of the copy command, the document holds no fallback textarea.
C29_NoLeftoverTextarea == textareas = 0


\* C26: while the picker is on, exactly one overlay exists, the three document
\* listeners are each registered once and at most one element is highlighted;
\* once it is off, no overlay, highlight or picker listener remains and the
\* cursor set by the picker is cleared.
C26_PickerCleanState ==
    /\ inspector.mode =>
         /\ inspector.overlays = 1
         /\ inspector.mouseover = 1 /\ inspector.click = 1 /\ inspector.keydown = 1
         /\ inspector.cursor = "crosshair"
         /\ Cardinality(inspector.highlighted) <= 1
    /\ ~inspector.mode =>
         /\ inspector.overlays = 0
         /\ inspector.highlighted = {}
         /\ inspector.mouseover = 0 /\ inspector.click = 0 /\ inspector.keydown = 0
         /\ inspector.cursor = ""

C26_Witness ==
    /\ ~inspector.mode
    /\ inspector.details \in PageTargets
    /\ inspector.overlays = 0
    /\ inspector.pending > 0

=========================================================================
